---- MODULE Spec2Model ----
(***************************************************************************)
(* Model of the TypeScript language-service plugin:                        *)
(*   - the Type Classifier and the Condition Checker (checkConditions),    *)
(*   - the Initialization-Order Checker (check / collectReferences),       *)
(*   - the Navigation Redirector (decorateLanguageService).                *)
(* The host (syntax tree, type checker, reference resolution) is modelled  *)
(* at its interface: a program is a finite tree whose expression nodes     *)
(* carry the answers the type checker gives for them.                      *)
(***************************************************************************)
EXTENDS Integers, Sequences, FiniteSets, TLC

VARIABLES
    arg,        \* Type Classifier: the Type handed to a predicate
    ret,        \* Type Classifier: the predicate called and its return value
    sf,         \* Condition Checker: the source file (syntax tree + type facts)
    cls,        \* Initialization-Order Checker: the source file (syntax tree + references)
    searched,   \* Initialization-Order Checker: per parameter property, what the
                \* search of the latest check yielded, visited and passed through
    result,     \* the diagnostics returned by the latest run of the checker
    previous,   \* what the run (the decorated query) before the latest returned
    runs,       \* number of completed runs (queries) on the unchanged tree
    host,       \* Navigation Redirector: the wrapped language service (program,
                \* source file, and its answers to the queries)
    reply       \* Navigation Redirector: the decorated query called, what the
                \* wrapped service handed to it, and what it returned

vars == <<arg, ret, sf, cls, searched, result, previous, runs, host, reply>>

None == "none"

-----------------------------------------------------------------------------
(* Bounds *)

\* largest number of constituents of a union type
MaxUnionSize == 3

\* number of times a checker is run on the unchanged tree
MaxRuns == 2

\* largest number of entries of a definition answer of the wrapped service
MaxDefinitions == 2

\* largest number of statements of a constructor body
MaxStatements == 2

\* largest number of statements that mention the class
MaxReferences == 2

\* largest number of nodes of the condition part, and of uses of the class part,
\* of a file whose diagnostics are asked for
MaxDiagnosedNodes == 3

MaxDiagnosedUses == 1

-----------------------------------------------------------------------------
(* Types: ts.Type as the classifier reads it: the flag bits, the intrinsic   *)
(* name of a boolean literal, the value of a string / number literal, and    *)
(* the constituents of a union.                                              *)

MkType(flags, intrinsicName, stringValue, numberValue, types) ==
    [flags |-> flags, intrinsicName |-> intrinsicName,
     stringValue |-> stringValue, numberValue |-> numberValue, types |-> types]

Intrinsic(flag, name) == MkType({flag}, name, "", 0, <<>>)

\* placeholder where no Type was asked for
NoType == MkType({}, "", "", 0, <<>>)

AnyType       == Intrinsic("Any", "any")
UnknownType   == Intrinsic("Unknown", "unknown")
StringType    == Intrinsic("String", "string")
NumberType    == Intrinsic("Number", "number")
BigIntType    == Intrinsic("BigInt", "bigint")
TrueType      == Intrinsic("BooleanLiteral", "true")
FalseType     == Intrinsic("BooleanLiteral", "false")
UndefinedType == Intrinsic("Undefined", "undefined")
NullType      == Intrinsic("Null", "null")
VoidType      == Intrinsic("Void", "void")
NeverType     == Intrinsic("Never", "never")
ObjectKeywordType == Intrinsic("NonPrimitive", "object")
InterfaceType == MkType({"Object"}, "", "", 0, <<>>)
StringLiteralType(v) == MkType({"StringLiteral"}, "", v, 0, <<>>)
NumberLiteralType(v) == MkType({"NumberLiteral"}, "", "", v, <<>>)
EnumLiteralType(v)   == MkType({"NumberLiteral", "EnumLiteral"}, "", "", v, <<>>)

\* a union type; the host marks the union of the two boolean literals Boolean
UnionType(types) == MkType({"Union"}, "", "", 0, types)
BooleanType      == MkType({"Boolean", "Union"}, "boolean", "", 0, <<FalseType, TrueType>>)

\* the constituents a union is built from, in the host's (type id) order
UnionAtoms ==
    << UndefinedType, NullType, StringType, NumberType, FalseType, TrueType,
       StringLiteralType(""), StringLiteralType("a"),
       NumberLiteralType(0), NumberLiteralType(1),
       ObjectKeywordType, InterfaceType >>

RECURSIVE Pick(_, _)
\* the atoms whose index is in S, in increasing index order
Pick(S, from) ==
    IF from > Len(UnionAtoms) THEN <<>>
    ELSE IF from \in S THEN <<UnionAtoms[from]>> \o Pick(S, from + 1)
    ELSE Pick(S, from + 1)

UnionTypes ==
    { UnionType(Pick(S, 1)) :
        S \in { T \in SUBSET (1..Len(UnionAtoms)) :
                  Cardinality(T) >= 2 /\ Cardinality(T) <= MaxUnionSize } }

AtomicTypes ==
    { AnyType, UnknownType, StringType, NumberType, BigIntType, TrueType, FalseType,
      UndefinedType, NullType, VoidType, NeverType, ObjectKeywordType, InterfaceType,
      StringLiteralType(""), StringLiteralType("a"),
      NumberLiteralType(0), NumberLiteralType(1),
      EnumLiteralType(0), EnumLiteralType(1) }

Types == AtomicTypes \cup {BooleanType} \cup UnionTypes

Has(type, flag) == flag \in type.flags

-----------------------------------------------------------------------------
(* Type Classifier *)

\* 'true' | 'false' | undefined
getBooleanLiteralIntrinsicName(type) ==
    IF Has(type, "BooleanLiteral") THEN type.intrinsicName ELSE None

isBooleanType_NoOtherCheck(type) ==
    IF Has(type, "Boolean") THEN TRUE
    ELSE IF Has(type, "Union") THEN
        /\ \E i \in DOMAIN type.types : getBooleanLiteralIntrinsicName(type.types[i]) = "true"
        /\ \E i \in DOMAIN type.types : getBooleanLiteralIntrinsicName(type.types[i]) = "false"
    ELSE FALSE

isBooleanType(type) ==
    IF Has(type, "Boolean") THEN TRUE
    ELSE IF Has(type, "Union") THEN
        LET hasTrue  == \E i \in DOMAIN type.types :
                            getBooleanLiteralIntrinsicName(type.types[i]) = "true"
            hasFalse == \E i \in DOMAIN type.types :
                            getBooleanLiteralIntrinsicName(type.types[i]) = "false"
            hasOther == \E i \in DOMAIN type.types :
                            getBooleanLiteralIntrinsicName(type.types[i]) \notin {"true", "false"}
        IN  hasTrue /\ hasFalse /\ ~hasOther
    ELSE FALSE

RECURSIVE canBeTruthyValue_UnionEvery(_)
canBeTruthyValue_UnionEvery(type) ==
    LET intrinsicName == getBooleanLiteralIntrinsicName(type) IN
    IF intrinsicName # None THEN intrinsicName = "true"
    ELSE IF Has(type, "Boolean") THEN TRUE
    ELSE IF Has(type, "Undefined") \/ Has(type, "Null") \/ Has(type, "Void") THEN FALSE
    ELSE IF Has(type, "StringLiteral") THEN type.stringValue # ""
    ELSE IF Has(type, "NumberLiteral") THEN type.numberValue # 0
    ELSE IF Has(type, "Object") \/ Has(type, "NonPrimitive") THEN TRUE
    ELSE IF Has(type, "Union") THEN
        \A i \in DOMAIN type.types : canBeTruthyValue_UnionEvery(type.types[i])
    ELSE TRUE

RECURSIVE canBeTruthyValue(_)
canBeTruthyValue(type) ==
    LET intrinsicName == getBooleanLiteralIntrinsicName(type) IN
    IF intrinsicName # None THEN intrinsicName = "true"
    ELSE IF Has(type, "Boolean") THEN TRUE
    ELSE IF Has(type, "Undefined") \/ Has(type, "Null") \/ Has(type, "Void") THEN FALSE
    ELSE IF Has(type, "StringLiteral") THEN type.stringValue # ""
    ELSE IF Has(type, "NumberLiteral") THEN type.numberValue # 0
    ELSE IF Has(type, "Object") \/ Has(type, "NonPrimitive") THEN TRUE
    ELSE IF Has(type, "Union") THEN
        \E i \in DOMAIN type.types : canBeTruthyValue(type.types[i])
    ELSE IF Has(type, "String") \/ Has(type, "Number") THEN TRUE
    ELSE IF Has(type, "Any") \/ Has(type, "Unknown") THEN TRUE
    ELSE TRUE

RECURSIVE canBeFalsyValue_StringNeverFalsy(_)
canBeFalsyValue_StringNeverFalsy(type) ==
    LET intrinsicName == getBooleanLiteralIntrinsicName(type) IN
    IF intrinsicName # None THEN intrinsicName = "false"
    ELSE IF Has(type, "Boolean") THEN TRUE
    ELSE IF Has(type, "Undefined") \/ Has(type, "Null") \/ Has(type, "Void") THEN TRUE
    ELSE IF Has(type, "StringLiteral") THEN type.stringValue = ""
    ELSE IF Has(type, "NumberLiteral") THEN type.numberValue = 0
    ELSE IF Has(type, "Object") \/ Has(type, "NonPrimitive")
            \/ Has(type, "String") \/ Has(type, "Number") THEN FALSE
    ELSE IF Has(type, "Union") THEN
        \E i \in DOMAIN type.types : canBeFalsyValue_StringNeverFalsy(type.types[i])
    ELSE TRUE

RECURSIVE canBeFalsyValue_NoNonPrimitive(_)
canBeFalsyValue_NoNonPrimitive(type) ==
    LET intrinsicName == getBooleanLiteralIntrinsicName(type) IN
    IF intrinsicName # None THEN intrinsicName = "false"
    ELSE IF Has(type, "Boolean") THEN TRUE
    ELSE IF Has(type, "Undefined") \/ Has(type, "Null") \/ Has(type, "Void") THEN TRUE
    ELSE IF Has(type, "StringLiteral") THEN type.stringValue = ""
    ELSE IF Has(type, "NumberLiteral") THEN type.numberValue = 0
    ELSE IF Has(type, "String") THEN TRUE
    ELSE IF Has(type, "Number") THEN TRUE
    ELSE IF Has(type, "Object") THEN FALSE
    ELSE IF Has(type, "Union") THEN
        \E i \in DOMAIN type.types : canBeFalsyValue_NoNonPrimitive(type.types[i])
    ELSE TRUE

RECURSIVE canBeFalsyValue(_)
canBeFalsyValue(type) ==
    LET intrinsicName == getBooleanLiteralIntrinsicName(type) IN
    IF intrinsicName # None THEN intrinsicName = "false"
    ELSE IF Has(type, "Boolean") THEN TRUE
    ELSE IF Has(type, "Undefined") \/ Has(type, "Null") \/ Has(type, "Void") THEN TRUE
    ELSE IF Has(type, "StringLiteral") THEN type.stringValue = ""
    ELSE IF Has(type, "NumberLiteral") THEN type.numberValue = 0
    ELSE IF Has(type, "String") THEN TRUE
    ELSE IF Has(type, "Number") THEN TRUE
    ELSE IF Has(type, "Object") \/ Has(type, "NonPrimitive") THEN FALSE
    ELSE IF Has(type, "Union") THEN
        \E i \in DOMAIN type.types : canBeFalsyValue(type.types[i])
    ELSE IF Has(type, "Any") \/ Has(type, "Unknown") THEN TRUE
    ELSE TRUE

-----------------------------------------------------------------------------
(* The source file handed to checkConditions: a syntax tree in an arena.    *)
(* nodes[1] is the SourceFile; a node names its parent; ids are in source   *)
(* (pre-)order. An IfStatement's first child is its `expression`, a         *)
(* ConditionalExpression's first child is its `condition`. An expression    *)
(* node carries what the type checker answers for it: getTypeAtLocation,    *)
(* and for an identifier the declarations of its symbol.                    *)

\* largest number of nodes of a source file, the SourceFile node included
MaxNodes == 4

ExpressionKinds == {"ConditionalExpression", "Identifier", "TrueKeyword", "FalseKeyword",
                    "CallExpression"}
NodeKinds == ExpressionKinds \cup {"IfStatement"}

\* no type annotation on a declaration (decl.type is undefined)
NoTypeNode == [present |-> FALSE, isTypeReference |-> FALSE, type |-> NoType,
               aliasIsTypeAlias |-> FALSE, aliasType |-> NoType]
\* `: T` written out as a type literal, keyword or union
TypeLiteralNode(t) == [present |-> TRUE, isTypeReference |-> FALSE, type |-> t,
                       aliasIsTypeAlias |-> FALSE, aliasType |-> NoType]
\* `: MyType` where `type MyType = T`
AliasReferenceNode(t) == [present |-> TRUE, isTypeReference |-> TRUE, type |-> t,
                          aliasIsTypeAlias |-> TRUE, aliasType |-> t]
\* `: IFoobar` naming an interface, which is no type alias
InterfaceReferenceNode(t) == [present |-> TRUE, isTypeReference |-> TRUE, type |-> t,
                              aliasIsTypeAlias |-> FALSE, aliasType |-> NoType]

Declaration(kind, typeNode) == [kind |-> kind, type |-> typeNode]

\* types the host reports for a condition that is no identifier
ConditionTypes ==
    { AnyType, UnknownType, BooleanType, StringType, NumberType, NullType,
      ObjectKeywordType, InterfaceType,
      StringLiteralType(""), NumberLiteralType(1), NeverType,
      UnionType(<<NullType, StringType>>), UnionType(<<StringType, ObjectKeywordType>>),
      UnionType(<<NullType, InterfaceType>>), UnionType(<<NullType, ObjectKeywordType>>),
      UnionType(<<UndefinedType, NullType>>), UnionType(<<FalseType, TrueType>>),
      UnionType(<<UndefinedType, FalseType, TrueType>>) }

\* annotations of the declaration of an identifier used as a condition
AnnotatedTypeNodes ==
    { TypeLiteralNode(BooleanType), TypeLiteralNode(AnyType),
      TypeLiteralNode(ObjectKeywordType), TypeLiteralNode(StringType),
      AliasReferenceNode(UnionType(<<NullType, InterfaceType>>)),
      InterfaceReferenceNode(InterfaceType) }

\* symbol.getDeclarations() of an identifier used as a condition
DeclarationLists ==
    { <<>>, <<Declaration("VariableDeclaration", NoTypeNode)>>,
      <<Declaration("BindingElement", TypeLiteralNode(StringType))>> }
    \cup { <<Declaration("VariableDeclaration", tn)>> : tn \in AnnotatedTypeNodes }
    \cup { <<Declaration("VariableDeclaration", NoTypeNode), Declaration("Parameter", tn)>> :
             tn \in AnnotatedTypeNodes }

\* getTypeAtLocation of an identifier: its type as narrowed by control flow
NarrowedTypes == { InterfaceType, UnknownType }

MkNode(kind, parent, type, declarations) ==
    [kind |-> kind, parent |-> parent, type |-> type, declarations |-> declarations]

\* the children of node n in source order (what ts.forEachChild enumerates)
Children(nodes, n) ==
    SelectSeq([i \in 1..Len(nodes) |-> i], LAMBDA i : nodes[i].parent = n)

Shape(kind, parent) == [kind |-> kind, parent |-> parent]

RECURSIVE AncestorsOrSelf(_, _)
AncestorsOrSelf(shapes, n) ==
    IF n = 0 THEN {} ELSE {n} \cup AncestorsOrSelf(shapes, shapes[n].parent)

\* the next node in source order hangs below the last node or one of its ancestors
CanAppend(shapes, kind, parent) ==
    LET parentKind == shapes[parent].kind
        siblings == { j \in DOMAIN shapes : shapes[j].parent = parent }
    IN  /\ parent \in AncestorsOrSelf(shapes, Len(shapes))
        /\ parentKind \notin {"Identifier", "TrueKeyword", "FalseKeyword"}
        /\ parentKind \in {"ConditionalExpression", "CallExpression"}
             => kind \in ExpressionKinds
        /\ parentKind = "IfStatement" /\ siblings = {} => kind \in ExpressionKinds
        /\ parentKind = "ConditionalExpression" => Cardinality(siblings) < 3

RECURSIVE ShapesOfSize(_)
ShapesOfSize(n) ==
    IF n = 1 THEN { << Shape("SourceFile", 0) >> }
    ELSE { Append(shapes, Shape(kind, parent)) :
             <<shapes, kind, parent>> \in
               { x \in ShapesOfSize(n - 1) \X NodeKinds \X (1..(n - 1)) :
                   CanAppend(x[1], x[2], x[3]) } }

\* an if statement has its expression, a ternary its condition
Complete(shapes) ==
    \A i \in DOMAIN shapes :
        shapes[i].kind \in {"IfStatement", "ConditionalExpression"}
            => \E j \in DOMAIN shapes : shapes[j].parent = i

\* node i is the expression of an if statement or the condition of a ternary
IsCondition(shapes, i) ==
    /\ i > 1
    /\ shapes[shapes[i].parent].kind \in {"IfStatement", "ConditionalExpression"}
    /\ \A j \in DOMAIN shapes : shapes[j].parent = shapes[i].parent => i <= j

\* the answers of the type checker for node i
NodeFacts(shapes, i) ==
    IF shapes[i].kind = "TrueKeyword" THEN { <<TrueType, <<>>>> }
    ELSE IF shapes[i].kind = "FalseKeyword" THEN { <<FalseType, <<>>>> }
    ELSE IF ~IsCondition(shapes, i) THEN { <<NoType, <<>>>> }
    ELSE IF shapes[i].kind = "Identifier" THEN NarrowedTypes \X DeclarationLists
    ELSE ConditionTypes \X { <<>> }

RECURSIVE NodesOf(_, _)
NodesOf(shapes, i) ==
    IF i = 0 THEN { <<>> }
    ELSE { Append(before, MkNode(shapes[i].kind, shapes[i].parent, f[1], f[2])) :
             before \in NodesOf(shapes, i - 1), f \in NodeFacts(shapes, i) }

\* the well-formed trees of n nodes
CompleteShapes(n) == { shapes \in ShapesOfSize(n) : Complete(shapes) }

-----------------------------------------------------------------------------
(* Condition Checker *)

CONDITION_ALWAYS_TRUE  == 90001
CONDITION_ALWAYS_FALSE == 90002

AlwaysFalseMessage == "This condition will always return 'false'."
AlwaysTrueMessage  == "This condition will always return 'true'."
NotBooleanMessage  == "This condition is not a boolean type."

ConditionDiagnostic(message, node, category, code, conditionType) ==
    [message |-> message, node |-> node, category |-> category,
     code |-> code, conditionType |-> conditionType]

\* the type of the annotation of a declaration, a type alias expanded one level
declaredTypeOf(decl) ==
    IF decl.type.isTypeReference /\ decl.type.aliasIsTypeAlias
    THEN decl.type.aliasType
    ELSE decl.type.type

RECURSIVE firstDeclaredType(_, _, _)
\* the loop over symbol.getDeclarations(): the first variable or parameter
\* declaration with a type annotation replaces the type
firstDeclaredType(declarations, i, type) ==
    IF i > Len(declarations) THEN type
    ELSE IF declarations[i].kind \in {"VariableDeclaration", "Parameter"}
            /\ declarations[i].type.present
    THEN declaredTypeOf(declarations[i])
    ELSE firstDeclaredType(declarations, i + 1, type)

\* the earlier variant, which classifies the type at the expression
resolveType_Narrowed(nodes, expr) == nodes[expr].type

\* the type checkConditionExpression classifies
resolveType(nodes, expr) ==
    IF nodes[expr].kind = "Identifier"
    THEN firstDeclaredType(nodes[expr].declarations, 1, nodes[expr].type)
    ELSE nodes[expr].type

\* the decision on a resolved type: the diagnostics pushed for expr
classify_HintIgnoresBoolean(type, expr) ==
    LET canBeTruthy == canBeTruthyValue(type)
        canBeFalsy  == canBeFalsyValue(type)
    IN  IF ~canBeTruthy /\ canBeFalsy
        THEN << ConditionDiagnostic(AlwaysFalseMessage, expr, "warning",
                                    CONDITION_ALWAYS_FALSE, "always-false") >>
        ELSE IF canBeTruthy /\ ~canBeFalsy
        THEN << ConditionDiagnostic(AlwaysTrueMessage, expr, "warning",
                                    CONDITION_ALWAYS_TRUE, "always-true") >>
        ELSE IF canBeTruthy /\ canBeFalsy
        THEN << ConditionDiagnostic(NotBooleanMessage, expr, "hint", 0, None) >>
        ELSE <<>>

classify(type, expr) ==
    LET canBeTruthy == canBeTruthyValue(type)
        canBeFalsy  == canBeFalsyValue(type)
        isBoolean   == isBooleanType(type)
    IN  IF ~canBeTruthy /\ canBeFalsy
        THEN << ConditionDiagnostic(AlwaysFalseMessage, expr, "warning",
                                    CONDITION_ALWAYS_FALSE, "always-false") >>
        ELSE IF canBeTruthy /\ ~canBeFalsy
        THEN << ConditionDiagnostic(AlwaysTrueMessage, expr, "warning",
                                    CONDITION_ALWAYS_TRUE, "always-true") >>
        ELSE IF ~isBoolean /\ canBeTruthy /\ canBeFalsy
        THEN << ConditionDiagnostic(NotBooleanMessage, expr, "hint", 0, None) >>
        ELSE <<>>

\* the earlier variant, which classifies any and unknown like every other type
checkConditionExpression_NoAnyCheck(nodes, expr) ==
    classify(resolveType(nodes, expr), expr)

checkConditionExpression(nodes, expr) ==
    LET type == resolveType(nodes, expr) IN
    IF Has(type, "Any") \/ Has(type, "Unknown") THEN <<>>
    ELSE classify(type, expr)

RECURSIVE visit_IfOnly(_, _)
visit_IfOnly(nodes, node) ==
    LET children == Children(nodes, node)
        Rest[i \in 0..Len(children)] ==
            IF i = 0 THEN <<>> ELSE Rest[i - 1] \o visit_IfOnly(nodes, children[i])
    IN  (IF nodes[node].kind = "IfStatement"
         THEN checkConditionExpression(nodes, children[1]) ELSE <<>>)
        \o Rest[Len(children)]

RECURSIVE visit(_, _)
\* the diagnostics pushed while visiting node and, through forEachChild, its subtree
visit(nodes, node) ==
    LET children == Children(nodes, node)
        Rest[i \in 0..Len(children)] ==
            IF i = 0 THEN <<>> ELSE Rest[i - 1] \o visit(nodes, children[i])
    IN  (IF nodes[node].kind = "IfStatement"
         THEN checkConditionExpression(nodes, children[1]) ELSE <<>>)
        \o (IF nodes[node].kind = "ConditionalExpression"
            THEN checkConditionExpression(nodes, children[1]) ELSE <<>>)
        \o Rest[Len(children)]

\* a result array that outlives the call
newResult_Kept == result

\* const result: ConditionDiagnostic[] = []
newResult == <<>>

checkConditions(file) == newResult \o visit(file.nodes, 1)

-----------------------------------------------------------------------------
(* The source file handed to the Initialization-Order Checker. The          *)
(* declarations are a fixed skeleton,                                        *)
(*     class Test {                                                          *)
(*         constructor(public readonly foo, options) { ... }                 *)
(*         bar = <arrow function () => ..., stored or immediately invoked>;  *)
(*         baz = ...;                                                        *)
(*         test() { ... }                                                    *)
(*     }                                                                     *)
(*     class Other extends Test { run() { ... } }                            *)
(*     function helper(t: Test) { ... }                                      *)
(* with a class expression that has a method own() inside test(),            *)
(* and the uses (identifier nodes naming foo, bar or test) are drawn: where  *)
(* each one stands, what it names and the expression around it. A named      *)
(* declaration's id also stands for its name node. The order of the use      *)
(* nodes is the order in which the host enumerates references.               *)

\* largest number of uses in the class
MaxUses == 3

\* the kinds findContainer stops at (ReferenceContainer)
ContainerKinds ==
    { "PropertyDeclaration", "MethodDeclaration", "GetAccessor", "SetAccessor",
      "Constructor", "ClassStaticBlockDeclaration", "ArrowFunction",
      "FunctionExpression", "FunctionDeclaration", "Parameter" }

\* the expression around a node: its parent and grandparent and the role the
\* node (the parent) plays in them, and the object of a property access
Context(parentKind, parentRole, grandKind, grandRole, object) ==
    [parentKind |-> parentKind, parentRole |-> parentRole,
     grandKind |-> grandKind, grandRole |-> grandRole, object |-> object]

NoContext == Context(None, None, None, None, None)

\* this.x;
ThisAccess == Context("PropertyAccessExpression", "name", "ExpressionStatement", "expression", "ThisKeyword")

\* this.x()
ThisCall == Context("PropertyAccessExpression", "name", "CallExpression", "expression", "ThisKeyword")

\* (() => ...)()
ImmediatelyInvoked == Context("ParenthesizedExpression", "expression", "CallExpression", "expression", None)

\* bar = () => ...
Stored == Context("PropertyDeclaration", "initializer", "ClassDeclaration", "member", None)

\* this['x']()
ThisElementCall == Context("ElementAccessExpression", "argumentExpression", "CallExpression", "expression", "ThisKeyword")

\* this.x`...`
ThisTag == Context("PropertyAccessExpression", "name", "TaggedTemplateExpression", "tag", "ThisKeyword")

\* f(this.x)
ThisArgument == Context("PropertyAccessExpression", "name", "CallExpression", "arguments", "ThisKeyword")

\* the expressions a use may stand in: a read or a call, and in the initializer
\* of baz also a call through an element access, a template tag and an argument
\* of a call; in the constructor and outside the class a read (the search looks
\* at neither)
UseContexts(site) ==
    IF site \in {3, 11, 12, 14} THEN { ThisAccess }
    ELSE IF site = 8 THEN { ThisAccess, ThisCall, ThisElementCall, ThisTag, ThisArgument }
    ELSE { ThisAccess, ThisCall }

ClassNode(kind, parent, name, modifiers, target, context) ==
    [kind |-> kind, parent |-> parent, name |-> name, modifiers |-> modifiers,
     target |-> target, context |-> context]

Skeleton(arrowContext) ==
    << ClassNode("SourceFile", 0, "", {}, 0, NoContext),
       ClassNode("ClassDeclaration", 1, "Test", {}, 0, NoContext),
       ClassNode("Constructor", 2, "", {}, 0, NoContext),
       ClassNode("Parameter", 3, "foo", {"public", "readonly"}, 0, NoContext),
       ClassNode("Parameter", 3, "options", {}, 0, NoContext),
       ClassNode("PropertyDeclaration", 2, "bar", {"public", "readonly"}, 0, NoContext),
       ClassNode("ArrowFunction", 6, "", {}, 0, arrowContext),
       ClassNode("PropertyDeclaration", 2, "baz", {"public", "readonly"}, 0, NoContext),
       ClassNode("MethodDeclaration", 2, "test", {}, 0, NoContext),
       ClassNode("ClassDeclaration", 1, "Other", {}, 0, NoContext),
       ClassNode("MethodDeclaration", 10, "run", {}, 0, NoContext),
       ClassNode("FunctionDeclaration", 1, "helper", {}, 0, NoContext),
       ClassNode("ClassExpression", 9, "", {}, 0, NoContext),
       ClassNode("MethodDeclaration", 13, "own", {}, 0, NoContext) >>

\* the nodes below which a use may stand, and the declarations it may name
UseSites   == { 3, 6, 7, 8, 9, 11, 12, 14 }
UseTargets == { 4, 6, 9 }

\* in the free function and in the nested class the parameter property is
\* read, in the subclass the parameter property or the method
UseTargetsAt(site) ==
    IF site \in {12, 14} THEN { 4 } ELSE IF site = 11 THEN { 4, 9 } ELSE UseTargets

Use(parent, target, context) == ClassNode("Identifier", parent, "", {}, target, context)

\* where in the text of the file the body of a use site stands: the arrow
\* function stands in the initializer of bar, the class expression in test
Position(site) ==
    CASE site = 3 -> 1
      [] site \in {6, 7} -> 2
      [] site = 8 -> 3
      [] site \in {9, 14} -> 4
      [] site = 11 -> 5
      [] site = 12 -> 6

\* uses are listed symbol by symbol (only the order among the references to one
\* symbol is observable), and the references to one symbol in the order of
\* their positions in the file, as the host finds them
CanAppendUse(nodes, use) ==
    LET last == nodes[Len(nodes)]
    IN  last.kind = "Identifier" =>
           \/ last.target < use.target
           \/ last.target = use.target /\ Position(last.parent) <= Position(use.parent)

UseChoices ==
    UNION { { Use(p, t, c) : t \in UseTargetsAt(p), c \in UseContexts(p) } : p \in UseSites }

RECURSIVE ClassesWithUses(_, _)
ClassesWithUses(skeleton, n) ==
    IF n = 0 THEN { skeleton }
    ELSE { Append(x[1], x[2]) :
             x \in { y \in ClassesWithUses(skeleton, n - 1) \X
                           UseChoices :
                       CanAppendUse(y[1], y[2]) } }

RECURSIVE Reachable(_, _)
\* the uses a search from the parameter property can come to: the uses of foo,
\* and the uses of a member in which such a use stands
Reachable(nodes, found) ==
    LET more == { u \in DOMAIN nodes :
                    /\ nodes[u].kind = "Identifier"
                    /\ \/ nodes[u].target = 4
                       \/ \E v \in found : nodes[v].parent = nodes[u].target }
    IN  IF more = found THEN found ELSE Reachable(nodes, more)

\* every use can be come to, and the arrow function is immediately invoked
\* unless a use stands in it: the other classes are no different to the search
Connected(nodes) ==
    /\ Reachable(nodes, {}) = { u \in DOMAIN nodes : nodes[u].kind = "Identifier" }
    /\ nodes[7].context = Stored =>
          \E u \in DOMAIN nodes : nodes[u].kind = "Identifier" /\ nodes[u].parent = 7

-----------------------------------------------------------------------------
(* Initialization-Order Checker *)

RECURSIVE findAncestor(_, _, _)
\* ts.findAncestor: the node itself or the nearest ancestor of one of the kinds,
\* 0 when there is none
findAncestor(nodes, node, kinds) ==
    IF node = 0 THEN 0
    ELSE IF nodes[node].kind \in kinds THEN node
    ELSE findAncestor(nodes, nodes[node].parent, kinds)

findContainer(nodes, node) == findAncestor(nodes, node, ContainerKinds)

findClass(nodes, node) == findAncestor(nodes, node, {"ClassDeclaration", "ClassExpression"})

RECURSIVE UsesOf(_, _, _)
\* the identifiers naming declaration `target`, in the order the host lists them
UsesOf(nodes, target, from) ==
    IF from > Len(nodes) THEN <<>>
    ELSE IF nodes[from].kind = "Identifier" /\ nodes[from].target = target
         THEN <<from>> \o UsesOf(nodes, target, from + 1)
         ELSE UsesOf(nodes, target, from + 1)

\* a node without a name searched by the name of the declaration around it
findAllReferences_FromEnclosingDeclaration(nodes, node) ==
    IF nodes[node].name = ""
    THEN IF nodes[node].parent = 0 THEN <<>>
         ELSE <<node>> \o UsesOf(nodes, nodes[node].parent, 1)
    ELSE <<node>> \o UsesOf(nodes, node, 1)

\* the reference entries of the host for the token at the start of `node`: for a
\* name node the declaration's own name and every use of the symbol; for a node
\* that has no name (an arrow function starts with its parameter list) nothing
findAllReferences(nodes, node) ==
    IF nodes[node].name = "" THEN <<>>
    ELSE <<node>> \o UsesOf(nodes, node, 1)

\* every reference entry but the node itself, whatever class it stands in
findAllReferencesInClass_AnyClass(nodes, node) ==
    LET entries == findAllReferences(nodes, node)
    IN  SelectSeq(entries, LAMBDA entry : entry # node)

findAllReferencesInClass(nodes, node) ==
    LET classDecl == findClass(nodes, node)
        entries == findAllReferences(nodes, node)
        Kept[i \in 0..Len(entries)] ==
            IF i = 0 THEN <<>>
            ELSE IF entries[i] = node THEN Kept[i - 1]
            ELSE IF findClass(nodes, entries[i]) = classDecl
                 THEN Append(Kept[i - 1], entries[i])
                 ELSE Kept[i - 1]
    IN  IF classDecl = 0 THEN <<>> ELSE Kept[Len(entries)]

\* a method counted as running where it is referenced
requiresInvocation_FunctionsOnly(nodes, definition) ==
    nodes[definition].kind \in { "FunctionDeclaration", "FunctionExpression", "ArrowFunction" }

requiresInvocation(nodes, definition) ==
    nodes[definition].kind \in { "MethodDeclaration", "FunctionDeclaration",
                                 "FunctionExpression", "ArrowFunction" }

\* a use counted as invoked only when it is itself the callee or the tag
isInvocation_DirectOnly(nodes, use) ==
    LET c == nodes[use].context
    IN  \/ c.parentKind = "CallExpression" /\ c.parentRole = "expression"
        \/ c.parentKind = "TaggedTemplateExpression" /\ c.parentRole = "tag"

isInvocation(nodes, use) ==
    LET c == nodes[use].context
        through == \/ c.parentKind = "PropertyAccessExpression" /\ c.parentRole = "name"
                   \/ c.parentKind = "ElementAccessExpression" /\ c.parentRole = "argumentExpression"
        kind == IF through THEN c.grandKind ELSE c.parentKind
        role == IF through THEN c.grandRole ELSE c.parentRole
    IN  \/ kind = "CallExpression" /\ role = "expression"
        \/ kind = "TaggedTemplateExpression" /\ role = "tag"

InvalidUse(stack, container) == [stack |-> stack, container |-> container]

\* the constructor entered like any other container
skipped_ConstructorEntered(nodes, container, seen) ==
    container = 0 \/ container \in seen

\* !container || seen.has(container) || ts.isConstructorDeclaration(container)
skipped(nodes, container, seen) ==
    container = 0 \/ container \in seen \/ nodes[container].kind = "Constructor"

\* every recursive call working on a copy of the set
seenAfterCall_Copied(seen, inner) == seen

\* `seen` is one Set that the recursive call adds to: what it holds when the
\* call has returned
seenAfterCall(seen, inner) == inner.seen

\* one pass through the loop body for a use that is not skipped: the use, its
\* container, the stack with the use on it, and the depth before the use, after
\* the use and as handed to the recursive call
Step(use, container, stack, before, afterUse, next) ==
    [use |-> use, container |-> container, stack |-> stack,
     before |-> before, afterUse |-> afterUse, next |-> next]

RECURSIVE collectReferences(_, _, _, _, _)
RECURSIVE forEachUse(_, _, _, _, _, _)
\* the loop body lowering the depth at every invoking use, also at depth zero
forEachUse_DecrementAtZero(nodes, uses, i, stack, requiresInvocationDepth, seen) ==
    IF i > Len(uses) THEN [yields |-> <<>>, seen |-> seen, steps |-> <<>>]
    ELSE
      LET use == uses[i]
          container == findContainer(nodes, use)
      IN  IF skipped(nodes, container, seen)
          THEN forEachUse(nodes, uses, i + 1, stack, requiresInvocationDepth, seen)
          ELSE
            LET nextStack == Append(stack, use)
                afterUse == IF isInvocation(nodes, use)
                            THEN requiresInvocationDepth - 1
                            ELSE requiresInvocationDepth
                invalid == nodes[container].kind = "PropertyDeclaration" /\ afterUse = 0
                nextRequiresInvocationDepth ==
                    IF ~invalid /\ requiresInvocation(nodes, container)
                    THEN afterUse + 1 ELSE afterUse
                inner == collectReferences(nodes, container, nextStack,
                                           nextRequiresInvocationDepth, seen \cup {container})
                rest == forEachUse(nodes, uses, i + 1, stack, requiresInvocationDepth,
                                   seenAfterCall(seen \cup {container}, inner))
            IN  [yields |-> (IF invalid THEN <<InvalidUse(nextStack, container)>> ELSE <<>>)
                            \o inner.yields \o rest.yields,
                 seen |-> rest.seen,
                 steps |-> <<Step(use, container, nextStack, requiresInvocationDepth,
                                  afterUse, nextRequiresInvocationDepth)>>
                           \o inner.steps \o rest.steps]

\* the loop body going on from a container only when it is a function for which
\* nothing was yielded
forEachUse_FunctionsOnly(nodes, uses, i, stack, requiresInvocationDepth, seen) ==
    IF i > Len(uses) THEN [yields |-> <<>>, seen |-> seen, steps |-> <<>>]
    ELSE
      LET use == uses[i]
          container == findContainer(nodes, use)
      IN  IF skipped(nodes, container, seen)
          THEN forEachUse(nodes, uses, i + 1, stack, requiresInvocationDepth, seen)
          ELSE
            LET nextStack == Append(stack, use)
                afterUse == IF isInvocation(nodes, use) /\ requiresInvocationDepth > 0
                            THEN requiresInvocationDepth - 1
                            ELSE requiresInvocationDepth
                invalid == nodes[container].kind = "PropertyDeclaration" /\ afterUse = 0
                nextRequiresInvocationDepth ==
                    IF ~invalid /\ requiresInvocation(nodes, container)
                    THEN afterUse + 1 ELSE afterUse
                inner == IF ~invalid /\ requiresInvocation(nodes, container)
                         THEN collectReferences(nodes, container, nextStack,
                                                nextRequiresInvocationDepth, seen \cup {container})
                         ELSE [yields |-> <<>>, seen |-> seen \cup {container}, steps |-> <<>>]
                rest == forEachUse(nodes, uses, i + 1, stack, requiresInvocationDepth,
                                   seenAfterCall(seen \cup {container}, inner))
            IN  [yields |-> (IF invalid THEN <<InvalidUse(nextStack, container)>> ELSE <<>>)
                            \o inner.yields \o rest.yields,
                 seen |-> rest.seen,
                 steps |-> <<Step(use, container, nextStack, requiresInvocationDepth,
                                  afterUse, nextRequiresInvocationDepth)>>
                           \o inner.steps \o rest.steps]

\* the body of the for loop of collectReferences from the i-th use on: what is
\* yielded, the set `seen` that all the calls of one search share, and the
\* passes through the loop body in the order they happen
forEachUse(nodes, uses, i, stack, requiresInvocationDepth, seen) ==
    IF i > Len(uses) THEN [yields |-> <<>>, seen |-> seen, steps |-> <<>>]
    ELSE
      LET use == uses[i]
          container == findContainer(nodes, use)
      IN  IF skipped(nodes, container, seen)
          THEN forEachUse(nodes, uses, i + 1, stack, requiresInvocationDepth, seen)
          ELSE
            LET nextStack == Append(stack, use)
                afterUse == IF isInvocation(nodes, use) /\ requiresInvocationDepth > 0
                            THEN requiresInvocationDepth - 1
                            ELSE requiresInvocationDepth
                invalid == nodes[container].kind = "PropertyDeclaration" /\ afterUse = 0
                nextRequiresInvocationDepth ==
                    IF ~invalid /\ requiresInvocation(nodes, container)
                    THEN afterUse + 1 ELSE afterUse
                \* container.name ?? container: the id stands for both
                inner == collectReferences(nodes, container, nextStack,
                                           nextRequiresInvocationDepth, seen \cup {container})
                rest == forEachUse(nodes, uses, i + 1, stack, requiresInvocationDepth,
                                   seenAfterCall(seen \cup {container}, inner))
            IN  [yields |-> (IF invalid THEN <<InvalidUse(nextStack, container)>> ELSE <<>>)
                            \o inner.yields \o rest.yields,
                 seen |-> rest.seen,
                 steps |-> <<Step(use, container, nextStack, requiresInvocationDepth,
                                  afterUse, nextRequiresInvocationDepth)>>
                           \o inner.steps \o rest.steps]

collectReferences(nodes, node, stack, requiresInvocationDepth, seen) ==
    forEachUse(nodes, findAllReferencesInClass(nodes, node), 1, stack,
               requiresInvocationDepth, seen)

\* new Set()
newSeen == {}

\* collectReferences(param.name, [], 0, new Set(), program, token)
searchFrom(nodes, param) == collectReferences(nodes, param, <<>>, 0, newSeen)

checkParameterPropertyDeclaration(nodes, param) == searchFrom(nodes, param).yields

\* the text of a use, as the pieces that formatUse concatenates
formatUse(nodes, use) ==
    LET c == nodes[use].context
        text == nodes[nodes[use].target].name
        property == c.parentKind = "PropertyAccessExpression" /\ c.parentRole = "name"
        element == c.parentKind = "ElementAccessExpression" /\ c.parentRole = "argumentExpression"
        called == IF property \/ element THEN c.grandKind = "CallExpression"
                  ELSE c.parentKind = "CallExpression"
    IN  << IF property /\ c.object = "ThisKeyword" THEN "this."
           ELSE IF element /\ c.object = "ThisKeyword" THEN "this['" ELSE "",
           text,
           IF ~property /\ element /\ c.object = "ThisKeyword" THEN "']" ELSE "",
           IF called THEN "(...)" ELSE "" >>

\* the stack rendered in the order it was built, inner use first
formatStack_NotReversed(nodes, stack) ==
    [i \in 1..Len(stack) |-> formatUse(nodes, stack[i])]

\* stack.slice().reverse().map(formatUse), the pieces that ' -> ' joins
formatStack(nodes, stack) ==
    [i \in 1..Len(stack) |-> formatUse(nodes, stack[Len(stack) + 1 - i])]

isParameterPropertyDeclaration(nodes, node) ==
    /\ nodes[node].kind = "Parameter"
    /\ nodes[node].modifiers \cap {"public", "private", "protected", "readonly", "override"} # {}
    /\ nodes[nodes[node].parent].kind = "Constructor"

ParameterProperties(nodes) ==
    { node \in DOMAIN nodes : isParameterPropertyDeclaration(nodes, node) }

\* `Parameter property '${name}' is used before its declaration. Usage stack: ${stack}`
InvalidUseMessage(name, stack) == [property |-> name, stack |-> stack]

InvalidUseDiagnostic(message, node) == [message |-> message, node |-> node]

RECURSIVE visitClass(_, _)
\* the diagnostics pushed by `visit` of check for node and its subtree
visitClass(nodes, node) ==
    LET children == Children(nodes, node)
        Rest[i \in 0..Len(children)] ==
            IF i = 0 THEN <<>> ELSE Rest[i - 1] \o visitClass(nodes, children[i])
        errs == checkParameterPropertyDeclaration(nodes, node)
    IN  (IF isParameterPropertyDeclaration(nodes, node)
         THEN [e \in 1..Len(errs) |->
                 InvalidUseDiagnostic(
                     InvalidUseMessage(nodes[node].name, formatStack(nodes, errs[e].stack)),
                     errs[e].stack[1])]
         ELSE <<>>)
        \o Rest[Len(children)]

\* const result: InvalidUseDiagnostic[] = []
newInvalidUses == <<>>

check(file) == newInvalidUses \o visitClass(file.nodes, 1)

-----------------------------------------------------------------------------
(* Navigation Redirector: the syntax tree as decorateLanguageService reads  *)
(* it. A node carries its kind, its parent, getStart() and getEnd(), the     *)
(* text of an identifier (the kind of the operator token for a binary        *)
(* expression), and one flag: `type` present for a PropertyDeclaration,      *)
(* `body` present for a Constructor. Node 0 stands for undefined.            *)

NavNode(kind, parent, start, end, text, flag) ==
    [kind |-> kind, parent |-> parent, start |-> start, end |-> end,
     text |-> text, flag |-> flag]

\* ts.ScriptElementKind, as far as the redirector reads or writes it
classElement == "class"

constructorImplementationElement == "constructor"

memberVariableElement == "property"

localVariableElement == "local var"

\* the nodes the tree API hands out only through getChildren(), not forEachChild()
TokenKinds == { "ConstructorKeyword", "OpenParenToken", "DotToken", "NewKeyword" }

\* ts.isExpression, over the kinds that occur
NavExpressionKinds ==
    { "BinaryExpression", "PropertyAccessExpression", "CallExpression", "NewExpression",
      "ThisKeyword", "Identifier", "NumericLiteral", "ArrowFunction",
      "ParenthesizedExpression" }

\* the statements a constructor body is made of; the k-th starts at 100 + 30 * k
StatementForms ==
    { "ThisAssign",       \* this.myField = 1;
      "OtherAssign",      \* this.other = 1;
      "CompoundAssign",   \* this.myField += 1;
      "ObjAssign",        \* obj.myField = 1;
      "NestedAssign",     \* if (c) { this.myField = 1; }
      "Call" }            \* this.myField();

\* `<object>.<name> <operator> 1;` starting at character b
AssignmentNodes(first, parent, b, object, name, operator) ==
    << NavNode("ExpressionStatement", parent, b, b + 17, "", FALSE),
       NavNode("BinaryExpression", first, b, b + 16, operator, FALSE),
       NavNode("PropertyAccessExpression", first + 1, b, b + 12, "", FALSE),
       NavNode(object, first + 2, b, b + 4, "", FALSE),
       NavNode("Identifier", first + 2, b + 5, b + 12, name, FALSE),
       NavNode("NumericLiteral", first + 1, b + 15, b + 16, "1", FALSE) >>

StatementNodes(form, first, parent, b) ==
    CASE form = "ThisAssign" ->
           AssignmentNodes(first, parent, b, "ThisKeyword", "myField", "EqualsToken")
      [] form = "OtherAssign" ->
           AssignmentNodes(first, parent, b, "ThisKeyword", "other", "EqualsToken")
      [] form = "CompoundAssign" ->
           AssignmentNodes(first, parent, b, "ThisKeyword", "myField", "PlusEqualsToken")
      [] form = "ObjAssign" ->
           AssignmentNodes(first, parent, b, "Identifier", "myField", "EqualsToken")
      [] form = "NestedAssign" ->
           << NavNode("IfStatement", parent, b, b + 28, "", FALSE),
              NavNode("Identifier", first, b + 4, b + 5, "c", FALSE),
              NavNode("Block", first, b + 7, b + 28, "", FALSE) >>
           \o AssignmentNodes(first + 3, first + 2, b + 9, "ThisKeyword", "myField",
                              "EqualsToken")
      [] form = "Call" ->
           << NavNode("ExpressionStatement", parent, b, b + 15, "", FALSE),
              NavNode("CallExpression", first, b, b + 14, "", FALSE),
              NavNode("PropertyAccessExpression", first + 1, b, b + 12, "", FALSE),
              NavNode("ThisKeyword", first + 2, b, b + 4, "", FALSE),
              NavNode("Identifier", first + 2, b + 5, b + 12, "myField", FALSE) >>

RECURSIVE WithStatements(_, _, _, _)
WithStatements(nodes, block, forms, k) ==
    IF forms = <<>> THEN nodes
    ELSE WithStatements(
            nodes \o StatementNodes(Head(forms), Len(nodes) + 1, block, 100 + 30 * k),
            block, Tail(forms), k + 1)

\* ctor: how the class declares its constructor: "absent", "bodiless", "implemented"
\* interface Shape { myField }
\* <classKind> FooBar { myField[: number]; constructor() { <statements> } }
FieldFile(classKind, typed, ctor, forms) ==
    LET members ==
          << NavNode("SourceFile", 0, 0, 1000, "", FALSE),
             NavNode("InterfaceDeclaration", 1, 0, 13, "", FALSE),
             NavNode("PropertySignature", 2, 4, 11, "", FALSE),
             NavNode("Identifier", 3, 4, 11, "myField", FALSE),
             NavNode(classKind, 1, 14, 990, "", FALSE),
             NavNode("Identifier", 5, 20, 26, "FooBar", FALSE),
             NavNode("PropertyDeclaration", 5, 37, 55, "", typed),
             NavNode("Identifier", 7, 37, 44, "myField", FALSE) >>
    IN  CASE ctor = "absent" -> members
          [] ctor = "bodiless" ->
               members \o << NavNode("Constructor", 5, 60, 75, "", FALSE) >>
          [] ctor = "implemented" ->
               WithStatements(
                   members \o << NavNode("Constructor", 5, 60, 980, "", TRUE),
                                 NavNode("Block", 9, 75, 980, "", FALSE) >>,
                   10, forms, 0)

\* a file of the program in which nothing is declared
EmptyFile == << NavNode("SourceFile", 0, 0, 0, "", FALSE) >>

\* the statements that mention class Test; the k-th starts at 100 + 30 * k
ReferenceForms ==
    { "Argument",         \* f(Test);
      "StaticRead",       \* log(Test.foo);
      "New",              \* new Test();
      "NewArgument",      \* f(new Test());
      "Callee",           \* Test();
      "TypeAnnotation",   \* let x: Test;
      "Returned" }        \* f(() => { return Test; });

ReferenceNodes(form, first, parent, b) ==
    CASE form = "Argument" ->
           << NavNode("ExpressionStatement", parent, b, b + 8, "", FALSE),
              NavNode("CallExpression", first, b, b + 7, "", FALSE),
              NavNode("Identifier", first + 1, b, b + 1, "f", FALSE),
              NavNode("OpenParenToken", first + 1, b + 1, b + 2, "", FALSE),
              NavNode("Identifier", first + 1, b + 2, b + 6, "Test", FALSE) >>
      [] form = "StaticRead" ->
           << NavNode("ExpressionStatement", parent, b, b + 14, "", FALSE),
              NavNode("CallExpression", first, b, b + 13, "", FALSE),
              NavNode("Identifier", first + 1, b, b + 3, "log", FALSE),
              NavNode("OpenParenToken", first + 1, b + 3, b + 4, "", FALSE),
              NavNode("PropertyAccessExpression", first + 1, b + 4, b + 12, "", FALSE),
              NavNode("Identifier", first + 4, b + 4, b + 8, "Test", FALSE),
              NavNode("DotToken", first + 4, b + 8, b + 9, "", FALSE),
              NavNode("Identifier", first + 4, b + 9, b + 12, "foo", FALSE) >>
      [] form = "New" ->
           << NavNode("ExpressionStatement", parent, b, b + 11, "", FALSE),
              NavNode("NewExpression", first, b, b + 10, "", FALSE),
              NavNode("NewKeyword", first + 1, b, b + 3, "", FALSE),
              NavNode("Identifier", first + 1, b + 4, b + 8, "Test", FALSE) >>
      [] form = "NewArgument" ->
           << NavNode("ExpressionStatement", parent, b, b + 15, "", FALSE),
              NavNode("CallExpression", first, b, b + 14, "", FALSE),
              NavNode("Identifier", first + 1, b, b + 1, "f", FALSE),
              NavNode("OpenParenToken", first + 1, b + 1, b + 2, "", FALSE),
              NavNode("NewExpression", first + 1, b + 2, b + 12, "", FALSE),
              NavNode("NewKeyword", first + 4, b + 2, b + 5, "", FALSE),
              NavNode("Identifier", first + 4, b + 6, b + 10, "Test", FALSE) >>
      [] form = "Callee" ->
           << NavNode("ExpressionStatement", parent, b, b + 7, "", FALSE),
              NavNode("CallExpression", first, b, b + 6, "", FALSE),
              NavNode("Identifier", first + 1, b, b + 4, "Test", FALSE),
              NavNode("OpenParenToken", first + 1, b + 4, b + 5, "", FALSE) >>
      [] form = "TypeAnnotation" ->
           << NavNode("VariableStatement", parent, b, b + 12, "", FALSE),
              NavNode("VariableDeclaration", first, b + 4, b + 11, "", FALSE),
              NavNode("Identifier", first + 1, b + 4, b + 5, "x", FALSE),
              NavNode("TypeReference", first + 1, b + 7, b + 11, "", FALSE),
              NavNode("Identifier", first + 3, b + 7, b + 11, "Test", FALSE) >>
      [] form = "Returned" ->
           << NavNode("ExpressionStatement", parent, b, b + 27, "", FALSE),
              NavNode("CallExpression", first, b, b + 26, "", FALSE),
              NavNode("Identifier", first + 1, b, b + 1, "f", FALSE),
              NavNode("OpenParenToken", first + 1, b + 1, b + 2, "", FALSE),
              NavNode("ArrowFunction", first + 1, b + 2, b + 25, "", FALSE),
              NavNode("Block", first + 4, b + 8, b + 25, "", FALSE),
              NavNode("ReturnStatement", first + 5, b + 10, b + 22, "", FALSE),
              NavNode("Identifier", first + 6, b + 17, b + 21, "Test", FALSE) >>

RECURSIVE WithReferences(_, _, _)
WithReferences(nodes, forms, k) ==
    IF forms = <<>> THEN nodes
    ELSE WithReferences(
            nodes \o ReferenceNodes(Head(forms), Len(nodes) + 1, 1, 100 + 30 * k),
            Tail(forms), k + 1)

\* class Test { constructor() { } }  <statements that mention Test>
ClassFile(forms) ==
    WithReferences(
        << NavNode("SourceFile", 0, 0, 1000, "", FALSE),
           NavNode("ClassDeclaration", 1, 0, 45, "", FALSE),
           NavNode("Identifier", 2, 6, 10, "Test", FALSE),
           NavNode("Constructor", 2, 15, 40, "", TRUE),
           NavNode("ConstructorKeyword", 4, 15, 26, "", FALSE),
           NavNode("Block", 4, 29, 40, "", FALSE) >>,
        forms, 0)

\* an optional value: `undefined`, or a value that is there
Undefined == [defined |-> FALSE, value |-> <<>>]

Some(value) == [defined |-> TRUE, value |-> value]

-----------------------------------------------------------------------------
(* Navigation Redirector: the wrapped language service. Its answers are     *)
(* inputs: the redirector reads nothing of them but the fields modelled.      *)

DefinitionInfo(fileName, textSpan, kind, name, containerName) ==
    [fileName |-> fileName, textSpan |-> textSpan, kind |-> kind, name |-> name,
     containerName |-> containerName]

\* the span of the name of the first declaration of one of the kinds
DeclarationNameSpan(nodes, kinds) ==
    LET decl == CHOOSE i \in 1..Len(nodes) :
                   nodes[i].kind \in kinds /\ \A j \in 1..(i - 1) : nodes[j].kind \notin kinds
        name == Head(Children(nodes, decl))
    IN  [start |-> nodes[name].start, length |-> nodes[name].end - nodes[name].start]

ClassKinds == { "ClassDeclaration", "ClassExpression" }

\* the field `myField` of class FooBar
FieldDefinition(nodes) ==
    DefinitionInfo("a.ts", DeclarationNameSpan(nodes, { "PropertyDeclaration" }),
                   memberVariableElement, "myField", "FooBar")

\* the member `myField` of interface Shape
SignatureDefinition(nodes) ==
    DefinitionInfo("a.ts", DeclarationNameSpan(nodes, { "PropertySignature" }),
                   memberVariableElement, "myField", "Shape")

ClassDefinition(nodes) ==
    DefinitionInfo("a.ts", DeclarationNameSpan(nodes, ClassKinds), classElement, "FooBar", "")

ConstructorDefinition(fileName, containerName) ==
    DefinitionInfo(fileName, [start |-> 60, length |-> 11],
                   constructorImplementationElement, "constructor", containerName)

MethodDefinition ==
    DefinitionInfo("a.ts", [start |-> 990, length |-> 3], "method", "run",
                   "FooBar")

\* the entries a definition answer is drawn from
Definitions(nodes) ==
    { FieldDefinition(nodes), SignatureDefinition(nodes), ClassDefinition(nodes),
      ConstructorDefinition("a.ts", "FooBar"), ConstructorDefinition("a.ts", "Other"),
      ConstructorDefinition("b.ts", "FooBar"), MethodDefinition }

\* all sequences over S of length at most n
RECURSIVE SeqsUpTo(_, _)
SeqsUpTo(S, n) ==
    IF n = 0 THEN { <<>> }
    ELSE SeqsUpTo(S, n - 1)
            \cup { Append(s, x) : s \in { t \in SeqsUpTo(S, n - 1) : Len(t) = n - 1 }, x \in S }

\* what the wrapped service knows of the program: none, or the files it holds
Programs ==
    { [program |-> FALSE, files |-> {}],
      [program |-> TRUE, files |-> {}],
      [program |-> TRUE, files |-> { "a.ts" }],
      [program |-> TRUE, files |-> { "a.ts", "b.ts" }] }

\* shape: what the file "a.ts" was built from; nodes: its syntax tree
\* retains: the service hands out the same result object at every query, so
\* what a caller pushes onto it is there at the next query
Host(p, shape, nodes, position, definitions, references, classReferences) ==
    [program |-> p.program, files |-> p.files, fileName |-> "a.ts", position |-> position,
     shape |-> shape, nodes |-> nodes, definitions |-> definitions,
     references |-> references, classReferences |-> classReferences,
     diagnostics |-> <<>>, retains |-> FALSE]

NoHost ==
    Host([program |-> FALSE, files |-> {}], [forms |-> <<>>], <<>>, 0,
         Undefined, Undefined, Undefined)

NoReply == [fn |-> None, value |-> Undefined, baseline |-> Undefined]

\* service.getDefinitionAndBoundSpan: undefined when there is no definition, else
\* the same definitions with the span of the token asked about
service_getDefinitionAndBoundSpan(h) ==
    IF ~h.definitions.defined \/ h.definitions.value = <<>> THEN Undefined
    ELSE Some([definitions |-> h.definitions,
               textSpan |-> [start |-> h.position, length |-> 7]])

ReferenceEntry(fileName, start, length) ==
    [fileName |-> fileName, textSpan |-> [start |-> start, length |-> length]]

ReferencedSymbol(kind, start, length, references) ==
    [definition |-> [kind |-> kind, fileName |-> "a.ts", name |-> "Test",
                     textSpan |-> [start |-> start, length |-> length]],
     references |-> references]

\* the nodes found, in text order, as reference entries
EntriesOf(nodes, found) ==
    [i \in 1..Len(found) |->
            ReferenceEntry("a.ts", nodes[found[i]].start,
                           nodes[found[i]].end - nodes[found[i]].start)]

\* service.findReferences on the class name: every token that names the class
ClassReferences(nodes) ==
    ReferencedSymbol(classElement, 6, 4,
        EntriesOf(nodes, SelectSeq([i \in 1..Len(nodes) |-> i],
            LAMBDA i : nodes[i].kind = "Identifier" /\ nodes[i].text = "Test")))

\* service.findReferences on the constructor keyword: the keyword and the
\* class name of every `new Test()`, under a definition of the given kind
ConstructorReferences(nodes, kind) ==
    ReferencedSymbol(kind, 6, 4,
        EntriesOf(nodes, SelectSeq([i \in 1..Len(nodes) |-> i],
            LAMBDA i :
                \/ nodes[i].kind = "ConstructorKeyword"
                \/ /\ nodes[i].kind = "Identifier"
                   /\ nodes[i].text = "Test"
                   /\ nodes[nodes[i].parent].kind = "NewExpression")))

-----------------------------------------------------------------------------
(* Navigation Redirector: the functions of decorateLanguageService.          *)

\* ts.forEachChild: the children that are nodes of the syntax tree proper
forEachChild(nodes, n) ==
    SelectSeq(Children(nodes, n), LAMBDA c : nodes[c].kind \notin TokenKinds)

\* the deepest node whose text holds the position
RECURSIVE findNodeAtPosition_visit(_, _, _)
findNodeAtPosition_visit(nodes, position, n) ==
    IF position >= nodes[n].start /\ position < nodes[n].end
    THEN LET found == SelectSeq(
                 [i \in 1..Len(forEachChild(nodes, n)) |->
                     findNodeAtPosition_visit(nodes, position, forEachChild(nodes, n)[i])],
                 LAMBDA v : v # 0)
         IN  IF found # <<>> THEN Head(found) ELSE n
    ELSE 0

findNodeAtPosition(sourceFile, position) ==
    findNodeAtPosition_visit(sourceFile, position, 1)

\* the first statement of the block that is `this.<propertyName> = <value>`:
\* its left-hand side, or 0
findFirstTopLevelPropertyAssignment_AnyOperator(nodes, block, propertyName) ==
    LET isAssignment(statement) ==
          /\ nodes[statement].kind = "ExpressionStatement"
          /\ LET expr == Head(Children(nodes, statement)) IN
               /\ nodes[expr].kind = "BinaryExpression"
               /\ LET left == Head(Children(nodes, expr)) IN
                    /\ nodes[left].kind = "PropertyAccessExpression"
                    /\ nodes[Children(nodes, left)[1]].kind = "ThisKeyword"
                    /\ nodes[Children(nodes, left)[2]].text = propertyName
        matches == SelectSeq(Children(nodes, block), isAssignment)
    IN  IF matches = <<>> THEN 0
        ELSE Head(Children(nodes, Head(Children(nodes, Head(matches)))))

findFirstTopLevelPropertyAssignment(nodes, block, propertyName) ==
    LET isAssignment(statement) ==
          /\ nodes[statement].kind = "ExpressionStatement"
          /\ LET expr == Head(Children(nodes, statement)) IN
               /\ nodes[expr].kind = "BinaryExpression"
               /\ nodes[expr].text = "EqualsToken"
               /\ LET left == Head(Children(nodes, expr)) IN
                    /\ nodes[left].kind = "PropertyAccessExpression"
                    /\ nodes[Children(nodes, left)[1]].kind = "ThisKeyword"
                    /\ nodes[Children(nodes, left)[2]].text = propertyName
        matches == SelectSeq(Children(nodes, block), isAssignment)
    IN  IF matches = <<>> THEN 0
        ELSE Head(Children(nodes, Head(Children(nodes, Head(matches)))))

\* program.getSourceFile
getSourceFile(h, fileName) ==
    IF fileName = h.fileName THEN h.nodes ELSE EmptyFile

\* the node itself when it is a PropertyDeclaration, else its nearest
\* PropertyDeclaration ancestor, else 0
RECURSIVE finalPropertyDecl(_, _)
finalPropertyDecl(nodes, n) ==
    IF n = 0 THEN 0
    ELSE IF nodes[n].kind = "PropertyDeclaration" THEN n
    ELSE finalPropertyDecl(nodes, nodes[n].parent)

\* finalPropertyDecl.type: the declaration carries a type annotation
hasType_Never(nodes, propertyDecl) == FALSE

hasType(nodes, propertyDecl) == nodes[propertyDecl].flag

\* getChildren(): every child, tokens included; leading trivia is not modelled,
\* so a node's pos is its start
RECURSIVE findChildInPosition(_, _, _)
findChildInPosition(nodes, pos, currentNode) ==
    LET inPosition == SelectSeq(Children(nodes, currentNode),
                         LAMBDA child : nodes[child].start <= pos /\ nodes[child].end >= pos)
    IN  IF inPosition = <<>> THEN currentNode
        ELSE findChildInPosition(nodes, pos, Head(inPosition))

findLeafNodeAtPosition(sf_, pos) == findChildInPosition(sf_, pos, 1)

\* the span from name.getStart() to name.getEnd() of a property access
nameSpan_WholeAccess(nodes, access) ==
    [start |-> nodes[access].start, length |-> nodes[access].end - nodes[access].start]

nameSpan(nodes, access) ==
    LET name == Children(nodes, access)[2]
    IN  [start |-> nodes[name].start, length |-> nodes[name].end - nodes[name].start]

tryRedirectUntypedFieldToConstructorAssignment(h, fileName, position, originalResult) ==
    IF ~originalResult.defined \/ Len(originalResult.value) = 0 THEN Undefined
    ELSE IF ~h.program THEN Undefined
    ELSE IF fileName \notin h.files THEN Undefined
    ELSE IF findLeafNodeAtPosition(getSourceFile(h, fileName), position) = 0 THEN Undefined
    ELSE
      LET definitionInfo == originalResult.value[1] IN
      IF definitionInfo.kind # memberVariableElement THEN Undefined
      ELSE IF definitionInfo.fileName \notin h.files THEN Undefined
      ELSE
        LET defSourceFile == getSourceFile(h, definitionInfo.fileName)
            propertyDecl == finalPropertyDecl(defSourceFile,
                               findNodeAtPosition(defSourceFile, definitionInfo.textSpan.start))
        IN
        IF propertyDecl = 0 THEN Undefined
        ELSE IF hasType(defSourceFile, propertyDecl) THEN Undefined
        ELSE
          LET classDecl == defSourceFile[propertyDecl].parent
              constructors == SelectSeq(Children(defSourceFile, classDecl),
                                 LAMBDA member : defSourceFile[member].kind = "Constructor")
          IN
          IF defSourceFile[classDecl].kind # "ClassDeclaration" THEN Undefined
          ELSE IF constructors = <<>> \/ ~defSourceFile[Head(constructors)].flag THEN Undefined
          ELSE
            LET constructor == Head(constructors)
                body == Head(SelectSeq(Children(defSourceFile, constructor),
                                LAMBDA c : defSourceFile[c].kind = "Block"))
                propertyName == defSourceFile[Head(Children(defSourceFile, propertyDecl))].text
                firstAssignment ==
                    findFirstTopLevelPropertyAssignment(defSourceFile, body, propertyName)
            IN
            IF propertyName = "" THEN Undefined
            ELSE IF firstAssignment = 0 THEN Undefined
            ELSE Some(<< [definitionInfo EXCEPT
                            !.textSpan = nameSpan(defSourceFile, firstAssignment),
                            !.name = propertyName,
                            !.kind = localVariableElement] >>)

shouldIgnoreFirst_ByName(info) ==
    IF Len(info) # 2 THEN FALSE
    ELSE IF info[1].fileName # info[2].fileName THEN FALSE
    ELSE IF info[1].kind # classElement THEN FALSE
    ELSE IF info[2].kind # constructorImplementationElement THEN FALSE
    ELSE IF info[1].name # info[2].name THEN FALSE
    ELSE TRUE

shouldIgnoreFirst(info) ==
    IF Len(info) # 2 THEN FALSE
    ELSE IF info[1].fileName # info[2].fileName THEN FALSE
    ELSE IF info[1].kind # classElement THEN FALSE
    ELSE IF info[2].kind # constructorImplementationElement THEN FALSE
    ELSE IF info[1].name # info[2].containerName THEN FALSE
    ELSE TRUE

\* Array.prototype.slice(1)
slice1(info) == IF info = <<>> THEN <<>> ELSE Tail(info)

\* the decorated getDefinitionAndBoundSpan: the wrapped service's answer is
\* undefined or { definitions, textSpan }
getDefinitionAndBoundSpan(h) ==
    LET result_ == service_getDefinitionAndBoundSpan(h) IN
    IF result_.defined /\ result_.value.definitions.defined
          /\ shouldIgnoreFirst(result_.value.definitions.value)
    THEN Some([result_.value EXCEPT
                 !.definitions = Some(slice1(result_.value.definitions.value))])
    ELSE result_

\* the decorated getDefinitionAtPosition
getDefinitionAtPosition(h) ==
    LET result_ == h.definitions
        redirectedResult ==
            tryRedirectUntypedFieldToConstructorAssignment(h, h.fileName, h.position, result_)
    IN  IF redirectedResult.defined THEN redirectedResult
        ELSE IF result_.defined /\ shouldIgnoreFirst(result_.value)
        THEN Some(slice1(result_.value))
        ELSE result_

\* the walk from node.parent upwards: FALSE on leaving the expressions, TRUE at
\* a call expression, FALSE at a property access
RECURSIVE invocationAbove(_, _)
invocationAbove(nodes, parent) ==
    IF parent = 0 THEN FALSE
    ELSE IF nodes[parent].kind \notin NavExpressionKinds THEN FALSE
    ELSE IF nodes[parent].kind = "CallExpression" THEN TRUE
    ELSE IF nodes[parent].kind = "PropertyAccessExpression" THEN FALSE
    ELSE invocationAbove(nodes, nodes[parent].parent)

\* the walk without the stop at a property access
RECURSIVE invocationAbove_ThroughPropertyAccess(_, _)
invocationAbove_ThroughPropertyAccess(nodes, parent) ==
    IF parent = 0 THEN FALSE
    ELSE IF nodes[parent].kind \notin NavExpressionKinds THEN FALSE
    ELSE IF nodes[parent].kind = "CallExpression" THEN TRUE
    ELSE invocationAbove_ThroughPropertyAccess(nodes, nodes[parent].parent)

isChildOfFunctionInvocationButNotPropertyAccess_ThroughPropertyAccess(nodes, node) ==
    IF node = 0 THEN FALSE ELSE invocationAbove_ThroughPropertyAccess(nodes, nodes[node].parent)

isChildOfFunctionInvocationButNotPropertyAccess(nodes, node) ==
    IF node = 0 THEN FALSE ELSE invocationAbove(nodes, nodes[node].parent)

\* all elements of the sequences of a sequence, in order
RECURSIVE Flatten(_)
Flatten(seqs) == IF seqs = <<>> THEN <<>> ELSE Head(seqs) \o Flatten(Tail(seqs))

\* the references the loops over classReferences push, in the order pushed
pushedReferences(h, classReferences) ==
    Flatten([i \in 1..Len(classReferences) |->
        SelectSeq(classReferences[i].references,
            LAMBDA r :
                /\ h.program
                /\ r.fileName \in h.files
                /\ isChildOfFunctionInvocationButNotPropertyAccess(
                       getSourceFile(h, r.fileName),
                       findLeafNodeAtPosition(getSourceFile(h, r.fileName),
                                              r.textSpan.start + 1)))])

\* findReferences that leaves an answer of two or more groups alone
findReferences_SoleGroupOnly(h) ==
    LET result_ == h.references IN
    IF ~h.program \/ h.fileName \notin h.files THEN result_
    ELSE IF h.nodes[findLeafNodeAtPosition(h.nodes, h.position)].kind # "ConstructorKeyword"
    THEN result_
    ELSE IF ~result_.defined \/ Len(result_.value) # 1 THEN result_
    ELSE IF result_.value[1].definition.kind # classElement THEN result_
    ELSE LET classReferences ==
                 IF h.classReferences.defined THEN h.classReferences.value ELSE <<>>
         IN  Some([result_.value EXCEPT
                     ![1].references = @ \o pushedReferences(h, classReferences)])

\* the decorated findReferences
findReferences(h) ==
    LET result_ == h.references IN
    IF ~h.program \/ h.fileName \notin h.files THEN result_
    ELSE IF h.nodes[findLeafNodeAtPosition(h.nodes, h.position)].kind # "ConstructorKeyword"
    THEN result_
    ELSE IF ~result_.defined \/ Len(result_.value) = 0 THEN result_
    ELSE IF result_.value[1].definition.kind # classElement THEN result_
    ELSE LET classReferences ==
                 IF h.classReferences.defined THEN h.classReferences.value ELSE <<>>
         IN  Some([result_.value EXCEPT
                     ![1].references = @ \o pushedReferences(h, classReferences)])

\* a diagnostic of the wrapped service
HostDiagnostic ==
    [category |-> "Error", code |-> 2322, file |-> "a.ts", messageText |-> "host",
     range |-> 1]

\* the ts.Diagnostic pushed for an error of a checker; range stands for
\* start = error.node.pos and length = error.node.end - error.node.pos
Diagnostic_AsError(h, error) ==
    [category |-> "Error", code |-> 0, file |-> h.fileName,
     messageText |-> error.message, range |-> error.node]

Diagnostic(h, error) ==
    [category |-> "Warning", code |-> 0, file |-> h.fileName,
     messageText |-> error.message, range |-> error.node]

\* the diagnostics pushed for the errors of a checker, in their order
pushedDiagnostics(h, errors) == [i \in 1..Len(errors) |-> Diagnostic(h, errors[i])]

\* the diagnostics pushed for the Condition Checker
conditionDiagnostics(h, file) == pushedDiagnostics(h, checkConditions(file))

\* the decorated getSemanticDiagnostics, for a file with a class part and a
\* condition part
getSemanticDiagnostics(h, classPart, conditionPart) ==
    LET result_ == h.diagnostics IN
    IF h.program /\ h.fileName \in h.files
    THEN result_ \o pushedDiagnostics(h, check(classPart))
                 \o conditionDiagnostics(h, conditionPart)
    ELSE result_

-----------------------------------------------------------------------------
(* Specification of the Type Classifier: a Type is drawn, then one of the   *)
(* three predicates is applied to it.                                        *)

NoFile == [nodes |-> <<>>]
NoReturn == [fn |-> None, value |-> FALSE]

NavIdle ==
    /\ host = NoHost
    /\ reply = NoReply

CondIdle ==
    /\ NavIdle
    /\ sf = NoFile
    /\ cls = NoFile
    /\ searched = <<>>
    /\ result = <<>>
    /\ previous = <<>>
    /\ runs = 0

ClassifierIdle ==
    /\ arg = NoType
    /\ ret = NoReturn

InitClassify ==
    /\ arg \in Types
    /\ ret = NoReturn
    /\ CondIdle

CallCanBeTruthy ==
    /\ ret = NoReturn
    /\ ret' = [fn |-> "canBeTruthyValue", value |-> canBeTruthyValue(arg)]
    /\ UNCHANGED <<arg, sf, cls, searched, result, previous, runs, host, reply>>

CallCanBeFalsy ==
    /\ ret = NoReturn
    /\ ret' = [fn |-> "canBeFalsyValue", value |-> canBeFalsyValue(arg)]
    /\ UNCHANGED <<arg, sf, cls, searched, result, previous, runs, host, reply>>

CallIsBooleanType ==
    /\ ret = NoReturn
    /\ ret' = [fn |-> "isBooleanType", value |-> isBooleanType(arg)]
    /\ UNCHANGED <<arg, sf, cls, searched, result, previous, runs, host, reply>>

NextClassify == CallCanBeTruthy \/ CallCanBeFalsy \/ CallIsBooleanType

SpecClassify == InitClassify /\ [][NextClassify]_vars

-----------------------------------------------------------------------------
(* Specification of the Condition Checker: a source file is drawn, and      *)
(* checkConditions runs on it, again and again on the unchanged tree.        *)

InitCond ==
    /\ \E n \in 1..MaxNodes : \E shapes \in CompleteShapes(n) :
         \E nodes \in NodesOf(shapes, n) : sf = [nodes |-> nodes]
    /\ cls = NoFile
    /\ searched = <<>>
    /\ result = <<>>
    /\ previous = <<>>
    /\ runs = 0
    /\ ClassifierIdle
    /\ NavIdle

CheckConditions ==
    /\ Len(sf.nodes) > 0
    /\ runs < MaxRuns
    /\ result' = checkConditions(sf)
    /\ previous' = result
    /\ runs' = runs + 1
    /\ UNCHANGED <<arg, ret, sf, cls, searched, host, reply>>

NextCond == CheckConditions

SpecCond == InitCond /\ [][NextCond]_vars

-----------------------------------------------------------------------------
(* Specification of the Initialization-Order Checker: a class is drawn, and *)
(* check runs on it, again and again on the unchanged tree.                  *)

InitOrder ==
    /\ \E arrowContext \in { ImmediatelyInvoked, Stored } : \E n \in 0..MaxUses :
         \E nodes \in ClassesWithUses(Skeleton(arrowContext), n) :
            Connected(nodes) /\ cls = [nodes |-> nodes]
    /\ sf = NoFile
    /\ searched = <<>>
    /\ result = <<>>
    /\ previous = <<>>
    /\ runs = 0
    /\ ClassifierIdle
    /\ NavIdle

Check ==
    /\ Len(cls.nodes) > 0
    /\ runs < MaxRuns
    /\ result' = check(cls)
    /\ searched' = [param \in ParameterProperties(cls.nodes) |-> searchFrom(cls.nodes, param)]
    /\ previous' = result
    /\ runs' = runs + 1
    /\ UNCHANGED <<arg, ret, sf, cls, host, reply>>

NextOrder == Check

SpecOrder == InitOrder /\ [][NextOrder]_vars

-----------------------------------------------------------------------------
(* Both checkers: a file is handed to one of them, which runs on it again   *)
(* and again.                                                                *)

InitCheckers == InitCond \/ InitOrder

NextCheckers == CheckConditions \/ Check

SpecCheckers == InitCheckers /\ [][NextCheckers]_vars

-----------------------------------------------------------------------------
(* Specification of the definition queries of the Navigation Redirector: a  *)
(* program and the wrapped service's definition answer are drawn, and one of *)
(* the two decorated definition queries is called.                           *)

\* the file of the answers that do not point at a field
DefaultFile == FieldFile("ClassDeclaration", FALSE, "implemented", << "ThisAssign" >>)

InitDefinition ==
    /\ \E p \in Programs :
         \/ \E definitions \in { Undefined } \cup
                  { Some(s) : s \in SeqsUpTo(Definitions(DefaultFile), MaxDefinitions) } :
               host = Host(p, [classKind |-> "ClassDeclaration", typed |-> FALSE,
                              ctor |-> "implemented", forms |-> << "ThisAssign" >>],
                          DefaultFile, 37, definitions, Undefined, Undefined)
         \/ \E classKind \in ClassKinds, typed \in BOOLEAN, ctor \in { "absent", "bodiless", "implemented" } :
              \E forms \in IF ctor = "implemented"
                            THEN SeqsUpTo(StatementForms, MaxStatements) ELSE { <<>> } :
                LET nodes == FieldFile(classKind, typed, ctor, forms) IN
                \E first \in { FieldDefinition(nodes), SignatureDefinition(nodes) } :
                  \E rest \in { <<>>, << ClassDefinition(nodes) >>,
                                 << ConstructorDefinition("a.ts", "FooBar") >> } :
                    host = Host(p, [classKind |-> classKind, typed |-> typed, ctor |-> ctor,
                                    forms |-> forms], nodes, 37,
                                Some(<< first >> \o rest), Undefined, Undefined)
    /\ reply = NoReply
    /\ sf = NoFile
    /\ cls = NoFile
    /\ searched = <<>>
    /\ result = <<>>
    /\ previous = <<>>
    /\ runs = 0
    /\ ClassifierIdle

GetDefinitionAtPosition ==
    /\ Len(host.nodes) > 0
    /\ reply = NoReply
    /\ reply' = [fn |-> "getDefinitionAtPosition", value |-> getDefinitionAtPosition(host),
                 baseline |-> host.definitions]
    /\ UNCHANGED <<arg, ret, sf, cls, searched, result, previous, runs, host>>

GetDefinitionAndBoundSpan ==
    /\ Len(host.nodes) > 0
    /\ reply = NoReply
    /\ reply' = [fn |-> "getDefinitionAndBoundSpan", value |-> getDefinitionAndBoundSpan(host),
                 baseline |-> service_getDefinitionAndBoundSpan(host)]
    /\ UNCHANGED <<arg, ret, sf, cls, searched, result, previous, runs, host>>

NextDefinition == GetDefinitionAtPosition \/ GetDefinitionAndBoundSpan

SpecDefinition == InitDefinition /\ [][NextDefinition]_vars

-----------------------------------------------------------------------------
(* Specification of the reference query of the Navigation Redirector: a     *)
(* file that mentions class Test is drawn with the answers of the wrapped     *)
(* service, and the decorated findReferences is called on the constructor     *)
(* keyword or on the class name.                                              *)

InitReferences ==
    /\ \E p \in Programs : \E forms \in SeqsUpTo(ReferenceForms, MaxReferences) :
         \E position \in { 6, 15 } :
           LET nodes == ClassFile(forms) IN
           \E references \in
                 { Undefined, Some(<<>>),
                   Some(<< ConstructorReferences(nodes, classElement) >>),
                   Some(<< ConstructorReferences(nodes, constructorImplementationElement) >>),
                   Some(<< ConstructorReferences(nodes, classElement),
                           ClassReferences(nodes) >>) } :
             \E classReferences \in { Undefined, Some(<< ClassReferences(nodes) >>) } :
               \E retains \in BOOLEAN :
                 host = [Host(p, [forms |-> forms], nodes, position, Undefined, references,
                              classReferences) EXCEPT !.retains = retains]
    /\ reply = NoReply
    /\ sf = NoFile
    /\ cls = NoFile
    /\ searched = <<>>
    /\ result = <<>>
    /\ previous = <<>>
    /\ runs = 0
    /\ ClassifierIdle

\* result[0].references.push(r) changes the object the wrapped service handed
\* out: a service that retains it hands out the changed object next time
FindReferences ==
    /\ Len(host.nodes) > 0
    /\ runs < MaxRuns
    /\ reply' = [fn |-> "findReferences", value |-> findReferences(host),
                 baseline |-> host.references]
    /\ host' = IF host.retains THEN [host EXCEPT !.references = findReferences(host)]
               ELSE host
    /\ previous' = reply
    /\ runs' = runs + 1
    /\ UNCHANGED <<arg, ret, sf, cls, searched, result>>

NextReferences == FindReferences

SpecReferences == InitReferences /\ [][NextReferences]_vars

-----------------------------------------------------------------------------
(* Specification of the diagnostics query of the Navigation Redirector: a   *)
(* file is drawn, either a class with conditions `if (true)` next to it or    *)
(* conditions with a class that reads a parameter property in an initializer  *)
(* next to them, with the diagnostics of the wrapped service, and the         *)
(* decorated getSemanticDiagnostics is called, again and again.               *)

\* if (true) { }
LiteralTrueFile ==
    [nodes |-> << MkNode("SourceFile", 0, NoType, <<>>),
                  MkNode("IfStatement", 1, NoType, <<>>),
                  MkNode("TrueKeyword", 2, TrueType, <<>>) >>]

\* class Test { bar = this.foo; constructor(public readonly foo) { } ... }
EarlyReadFile ==
    [nodes |-> Skeleton(Stored) \o << Use(6, 4, ThisAccess) >>]

InitDiagnostics ==
    /\ \/ /\ \E n \in 1..MaxDiagnosedNodes : \E shapes \in CompleteShapes(n) :
                \E nodes \in NodesOf(shapes, n) : sf = [nodes |-> nodes]
          /\ cls = EarlyReadFile
       \/ /\ \E arrowContext \in { ImmediatelyInvoked, Stored } :
                \E n \in 0..MaxDiagnosedUses :
                  \E nodes \in ClassesWithUses(Skeleton(arrowContext), n) :
                     Connected(nodes) /\ cls = [nodes |-> nodes]
          /\ sf = LiteralTrueFile
    /\ \E p \in Programs : \E diagnostics \in { <<>>, << HostDiagnostic >> } :
         \E retains \in BOOLEAN :
           host = [Host(p, [forms |-> <<>>], EmptyFile, 0, Undefined, Undefined, Undefined)
                     EXCEPT !.diagnostics = diagnostics, !.retains = retains]
    /\ reply = NoReply
    /\ searched = <<>>
    /\ result = <<>>
    /\ previous = <<>>
    /\ runs = 0
    /\ ClassifierIdle

\* result.push(...) changes the array the wrapped service handed out: a
\* service that retains it hands out the changed array next time
GetSemanticDiagnostics ==
    /\ Len(host.nodes) > 0
    /\ Len(sf.nodes) > 0
    /\ runs < MaxRuns
    /\ reply' = [fn |-> "getSemanticDiagnostics",
                 value |-> getSemanticDiagnostics(host, cls, sf),
                 baseline |-> host.diagnostics]
    /\ host' = IF host.retains
               THEN [host EXCEPT !.diagnostics = getSemanticDiagnostics(host, cls, sf)]
               ELSE host
    /\ previous' = reply
    /\ runs' = runs + 1
    /\ UNCHANGED <<arg, ret, sf, cls, searched, result>>

NextDiagnostics == GetSemanticDiagnostics

SpecDiagnostics == InitDiagnostics /\ [][NextDiagnostics]_vars

-----------------------------------------------------------------------------
(* Claims about the Type Classifier (checked under SpecClassify)            *)

\* C2: canBeTruthy(t) follows the priority order: boolean literal true -> true,
\* false -> false; general boolean -> true; Undefined/Null/Void -> false; a string
\* literal is truthy iff non-empty; a number literal iff non-zero; Object /
\* NonPrimitive -> true; a Union iff at least one constituent can be truthy;
\* unconstrained String/Number -> true; Any/Unknown -> true; anything else -> true.
C2_CanBeTruthyPriorityTable ==
    LET Atom(t) ==
            IF Has(t, "BooleanLiteral") /\ t.intrinsicName = "true" THEN TRUE
            ELSE IF Has(t, "BooleanLiteral") /\ t.intrinsicName = "false" THEN FALSE
            ELSE IF Has(t, "Boolean") THEN TRUE
            ELSE IF t.flags \cap {"Undefined", "Null", "Void"} # {} THEN FALSE
            ELSE IF Has(t, "StringLiteral") THEN Len(t.stringValue) > 0
            ELSE IF Has(t, "NumberLiteral") THEN t.numberValue > 0 \/ t.numberValue < 0
            ELSE TRUE
        Expected(t) ==
            IF t.flags \cap {"BooleanLiteral", "Boolean", "Undefined", "Null", "Void",
                             "StringLiteral", "NumberLiteral", "Object", "NonPrimitive"} # {}
            THEN Atom(t)
            ELSE IF Has(t, "Union")
            THEN Cardinality({i \in DOMAIN t.types : Atom(t.types[i])}) >= 1
            ELSE TRUE
    IN  ret.fn = "canBeTruthyValue" => ret.value = Expected(arg)

\* witness of C2: canBeTruthyValue was applied to unions, one that mixes a falsy
\* constituent with a truthy one (true), as to a union of falsy constituents (false)
C2_Witness ==
    /\ ret.fn = "canBeTruthyValue"
    /\ arg = UnionType(<<NullType, StringType>>)
    /\ ret.value = TRUE

\* C3: canBeFalsy(t) mirrors it: boolean literal false -> true, true -> false;
\* general boolean -> true; Undefined/Null/Void -> true; a string literal is falsy
\* iff empty; a number literal iff zero; unconstrained String/Number -> true;
\* Object/NonPrimitive -> false; a Union iff at least one constituent can be falsy;
\* Any/Unknown -> true; anything else -> true.
C3_CanBeFalsyPriorityTable ==
    LET Atom(t) ==
            IF Has(t, "BooleanLiteral") /\ t.intrinsicName = "false" THEN TRUE
            ELSE IF Has(t, "BooleanLiteral") /\ t.intrinsicName = "true" THEN FALSE
            ELSE IF Has(t, "Boolean") THEN TRUE
            ELSE IF t.flags \cap {"Undefined", "Null", "Void"} # {} THEN TRUE
            ELSE IF Has(t, "StringLiteral") THEN Len(t.stringValue) = 0
            ELSE IF Has(t, "NumberLiteral") THEN ~(t.numberValue > 0 \/ t.numberValue < 0)
            ELSE IF t.flags \cap {"String", "Number"} # {} THEN TRUE
            ELSE IF t.flags \cap {"Object", "NonPrimitive"} # {} THEN FALSE
            ELSE TRUE
        Expected(t) ==
            IF t.flags \cap {"BooleanLiteral", "Boolean", "Undefined", "Null", "Void",
                             "StringLiteral", "NumberLiteral", "String", "Number",
                             "Object", "NonPrimitive"} # {}
            THEN Atom(t)
            ELSE IF Has(t, "Union")
            THEN Cardinality({i \in DOMAIN t.types : Atom(t.types[i])}) >= 1
            ELSE TRUE
    IN  ret.fn = "canBeFalsyValue" => ret.value = Expected(arg)

\* witness of C3: canBeFalsyValue was applied to object | string, whose only
\* possibly falsy constituent is the unconstrained string
C3_Witness ==
    /\ ret.fn = "canBeFalsyValue"
    /\ arg = UnionType(<<StringType, ObjectKeywordType>>)
    /\ ret.value = TRUE

\* C4: isBooleanType(t) is true iff t carries the general boolean flag, or t is a
\* union whose constituents include a true literal and a false literal and nothing
\* else.
C4_IsBooleanTypeIff ==
    LET Literals(t) == { t.types[i] : i \in DOMAIN t.types } IN
    ret.fn = "isBooleanType" =>
        (ret.value = TRUE <=>
            \/ "Boolean" \in arg.flags
            \/ /\ "Union" \in arg.flags
               /\ Literals(arg) = {TrueType, FalseType})

\* witness of C4: isBooleanType accepted a union of the two boolean literals that
\* does not carry the Boolean flag
C4_Witness ==
    /\ ret.fn = "isBooleanType"
    /\ "Boolean" \notin arg.flags
    /\ ret.value = TRUE

-----------------------------------------------------------------------------
(* Claims about the Condition Checker (checked under SpecCond)              *)

\* C1: every examined condition expression whose resolved type is not any/unknown
\* gets at most one diagnostic, chosen by the decision table (never truthy ->
\* always-false warning; never falsy -> always-true warning; both and not boolean
\* -> not-a-boolean hint; both and boolean -> none), and every diagnostic's node
\* is a condition expression.
C1_DecisionTable ==
    LET nodes == sf.nodes
        Conditions == { e \in DOMAIN nodes : IsCondition(nodes, e) }
        At(e) == { i \in DOMAIN result : result[i].node = e }
        Is(i, message, category) ==
            result[i].message = message /\ result[i].category = category
    IN  runs >= 1 =>
        /\ \A i \in DOMAIN result : result[i].node \in Conditions
        /\ \A e \in Conditions :
            LET type == resolveType(nodes, e)
                truthy == canBeTruthyValue(type)
                falsy  == canBeFalsyValue(type)
                isBool == isBooleanType(type)
            IN  type.flags \cap {"Any", "Unknown"} = {} =>
                /\ Cardinality(At(e)) <= 1
                /\ ~truthy /\ falsy => \E i \in At(e) : Is(i, AlwaysFalseMessage, "warning")
                /\ truthy /\ ~falsy => \E i \in At(e) : Is(i, AlwaysTrueMessage, "warning")
                /\ truthy /\ falsy /\ ~isBool => \E i \in At(e) : Is(i, NotBooleanMessage, "hint")
                /\ truthy /\ falsy /\ isBool => At(e) = {}

\* witness of C1: a run examined a boolean condition (no diagnostic) and a
\* condition that is not boolean (the hint)
C1_Witness ==
    /\ runs >= 1
    /\ \E e \in DOMAIN sf.nodes :
        /\ IsCondition(sf.nodes, e)
        /\ resolveType(sf.nodes, e) = BooleanType
        /\ \A i \in DOMAIN result : result[i].node # e
    /\ \E i \in DOMAIN result : result[i].category = "hint"

\* C5: no diagnostic is emitted for a condition expression whose resolved type
\* carries the Any or the Unknown flag.
C5_NoDiagnosticForAnyUnknown ==
    runs >= 1 =>
        \A e \in DOMAIN sf.nodes :
            /\ IsCondition(sf.nodes, e)
            /\ resolveType(sf.nodes, e).flags \cap {"Any", "Unknown"} # {}
            => \A i \in DOMAIN result : result[i].node # e

\* witness of C5: a run examined a condition of type any next to one that got a
\* diagnostic
C5_Witness ==
    /\ runs >= 1
    /\ \E e \in DOMAIN sf.nodes :
        /\ IsCondition(sf.nodes, e)
        /\ "Any" \in resolveType(sf.nodes, e).flags
    /\ Len(result) = 1

\* C6: for every if statement or ternary whose condition is the literal true
\* (resp. false), exactly one diagnostic is emitted for that condition: the
\* always-true (resp. always-false) warning, anchored at the literal.
C6_LiteralConditions ==
    LET nodes == sf.nodes
        At(e) == { i \in DOMAIN result : result[i].node = e }
        Expected(e) ==
            IF nodes[e].kind = "TrueKeyword" THEN AlwaysTrueMessage ELSE AlwaysFalseMessage
    IN  runs >= 1 =>
        \A n \in DOMAIN nodes : nodes[n].kind \in {"IfStatement", "ConditionalExpression"} =>
            \A e \in DOMAIN nodes :
                /\ nodes[e].parent = n
                /\ \A j \in DOMAIN nodes : nodes[j].parent = n => e <= j
                /\ nodes[e].kind \in {"TrueKeyword", "FalseKeyword"}
                => /\ Cardinality(At(e)) = 1
                   /\ \A i \in At(e) : /\ result[i].message = Expected(e)
                                       /\ result[i].category = "warning"

\* witness of C6: a ternary with the condition `false`, itself the expression of
\* an if statement, got its always-false warning
C6_Witness ==
    /\ runs >= 1
    /\ \E e \in DOMAIN sf.nodes :
        /\ sf.nodes[e].kind = "FalseKeyword"
        /\ sf.nodes[sf.nodes[e].parent].kind = "ConditionalExpression"
        /\ sf.nodes[sf.nodes[sf.nodes[e].parent].parent].kind = "IfStatement"
        /\ \E i \in DOMAIN result :
            result[i].node = e /\ result[i].message = AlwaysFalseMessage

\* C7: for a condition whose type is the non-primitive object type or an object /
\* interface type, exactly one diagnostic is emitted: the always-true warning.
C7_ObjectAlwaysTrue ==
    LET At(e) == { i \in DOMAIN result : result[i].node = e } IN
    runs >= 1 =>
        \A e \in DOMAIN sf.nodes :
            /\ IsCondition(sf.nodes, e)
            /\ resolveType(sf.nodes, e) \in {ObjectKeywordType, InterfaceType}
            => /\ Cardinality(At(e)) = 1
               /\ \A i \in At(e) : /\ result[i].message = AlwaysTrueMessage
                                   /\ result[i].category = "warning"

\* witness of C7: a parameter declared `x: object` was examined and got the
\* always-true warning
C7_Witness ==
    /\ runs >= 1
    /\ \E e \in DOMAIN sf.nodes :
        /\ IsCondition(sf.nodes, e)
        /\ sf.nodes[e].kind = "Identifier"
        /\ resolveType(sf.nodes, e) = ObjectKeywordType
        /\ \E i \in DOMAIN result :
            result[i].node = e /\ result[i].message = AlwaysTrueMessage

\* C8: for a condition whose type is unconstrained string, unconstrained number,
\* string | null, object | string or object | null, exactly one diagnostic is
\* emitted: the not-a-boolean hint, never a warning.
C8_MixedTypesGetHint ==
    LET At(e) == { i \in DOMAIN result : result[i].node = e } IN
    runs >= 1 =>
        \A e \in DOMAIN sf.nodes :
            /\ IsCondition(sf.nodes, e)
            /\ resolveType(sf.nodes, e) \in
                 { StringType, NumberType, UnionType(<<NullType, StringType>>),
                   UnionType(<<StringType, ObjectKeywordType>>),
                   UnionType(<<NullType, ObjectKeywordType>>),
                   UnionType(<<NullType, InterfaceType>>) }
            => /\ Cardinality(At(e)) = 1
               /\ \A i \in At(e) : /\ result[i].message = NotBooleanMessage
                                   /\ result[i].category = "hint"

\* witness of C8: `declare const x: MyType` with `type MyType = {} | null` was
\* examined where control flow had narrowed x, and got the hint
C8_Witness ==
    /\ runs >= 1
    /\ \E e \in DOMAIN sf.nodes :
        /\ IsCondition(sf.nodes, e)
        /\ sf.nodes[e].type = InterfaceType
        /\ resolveType(sf.nodes, e) = UnionType(<<NullType, InterfaceType>>)
        /\ \E i \in DOMAIN result :
            result[i].node = e /\ result[i].category = "hint"

-----------------------------------------------------------------------------
(* Claims about repeated runs (checked under SpecCheckers)                  *)

-----------------------------------------------------------------------------
(* Claims about the Initialization-Order Checker (checked under SpecOrder)  *)

\* the uses of the parameter property foo that stand directly in the arrow
\* function that is bar's initializer
ReadsInArrow ==
    { u \in DOMAIN cls.nodes :
        /\ cls.nodes[u].kind = "Identifier"
        /\ cls.nodes[u].target = 4
        /\ cls.nodes[u].parent = 7 }

\* C10: once check has run, a read of the parameter property inside the arrow
\* function that is immediately invoked as bar's initializer,
\* bar = (() => this.foo)(), has a diagnostic anchored at it, and a read inside
\* the same arrow function stored as the initializer but not called has none.
C10_ImmediatelyInvokedArrowIsFlagged ==
    runs >= 1 =>
        \A u \in ReadsInArrow :
            /\ cls.nodes[7].context = ImmediatelyInvoked =>
                  \E d \in DOMAIN result : result[d].node = u
            /\ cls.nodes[7].context = Stored =>
                  \A d \in DOMAIN result : result[d].node # u

\* the use nodes of the class
Uses == { u \in DOMAIN cls.nodes : cls.nodes[u].kind = "Identifier" }

\* the uses naming declaration `target` that stand directly below node `site`
UsesAt(site, target) ==
    { u \in Uses : cls.nodes[u].parent = site /\ cls.nodes[u].target = target }

\* the uses that stand directly in the initializer of bar or of baz
UsesInInitializers == { u \in Uses : cls.nodes[u].parent \in {6, 8} }

\* C11: (a) when the parameter property is read only in the method (or in the
\* constructor or the other class) and every use in a field initializer is a
\* plain reference that invokes nothing (bar = this.test), check returns no
\* diagnostic; (b) when the method test reads the parameter property, bar's
\* initializer is only the reference this.test and baz's initializer is only the
\* call this.bar(), check returns a diagnostic anchored at a read in test.
C11_ReferenceWithoutInvocation ==
    runs >= 1 =>
        /\ ( /\ \A u \in Uses : cls.nodes[u].target = 4 => cls.nodes[u].parent \in {3, 9, 11}
             /\ \A u \in UsesInInitializers : cls.nodes[u].context = ThisAccess )
           => result = <<>>
        /\ ( /\ UsesAt(9, 4) # {}
             /\ \E v \in UsesAt(6, 9) :
                   cls.nodes[v].context = ThisAccess /\ { u \in Uses : cls.nodes[u].parent = 6 } = {v}
             /\ \E w \in UsesAt(8, 6) :
                   cls.nodes[w].context = ThisCall /\ { u \in Uses : cls.nodes[u].parent = 8 } = {w} )
           => \E d \in DOMAIN result : result[d].node \in UsesAt(9, 4)

\* check has run on: test() { this.foo }  bar = this.test  baz = this.bar()
C11_Witness ==
    /\ runs >= 1
    /\ UsesAt(9, 4) # {}
    /\ \E v \in UsesAt(6, 9) : cls.nodes[v].context = ThisAccess
    /\ \E w \in UsesAt(8, 6) : cls.nodes[w].context = ThisCall
    /\ Len(result) = 1
    /\ Len(result[1].message.stack) = 3

\* the uses that formatUse renders as `piece`
UsesRenderedAs(piece) == { u \in Uses : formatUse(cls.nodes, u) = piece }

\* C12: every diagnostic of check is anchored at a direct read of the parameter
\* property, its message names that property, and the rendered stack runs from
\* the outside in: its first entry is a use standing in a field initializer,
\* each further entry is a use standing in the member the entry before it
\* names, and its last entry is the anchor, the read of the parameter property
\* (this.test(...) -> this.foo).
C12_AnchorAndRenderedStack ==
    runs >= 1 =>
        \A d \in DOMAIN result :
            LET anchor == result[d].node
                stack == result[d].message.stack
            IN  /\ anchor \in Uses
                /\ cls.nodes[anchor].target = 4
                /\ result[d].message.property = cls.nodes[4].name
                /\ Len(stack) >= 1
                /\ stack[Len(stack)] = formatUse(cls.nodes, anchor)
                /\ \E u \in UsesRenderedAs(stack[1]) :
                      cls.nodes[findContainer(cls.nodes, u)].kind = "PropertyDeclaration"
                /\ \A k \in 1..(Len(stack) - 1) :
                      \E u \in UsesRenderedAs(stack[k + 1]) :
                          cls.nodes[findContainer(cls.nodes, u)].name = stack[k][2]

\* check has reported bar = this.test() for test() { this.foo } as
\* this.test(...) -> this.foo
C12_Witness ==
    /\ runs >= 1
    /\ \E d \in DOMAIN result :
          /\ result[d].message.stack = << <<"this.", "test", "", "(...)">>,
                                          <<"this.", "foo", "", "">> >>
          /\ result[d].node \in UsesAt(9, 4)

\* the search that the latest check ran from the name of the parameter property foo
Search == searched[4]

\* the uses on the stack of some pass of the search
UsesOnStacks ==
    UNION { { Search.steps[k].stack[j] : j \in DOMAIN Search.steps[k].stack } :
              k \in DOMAIN Search.steps }

InConstructor(u) == cls.nodes[findContainer(cls.nodes, u)].kind = "Constructor"

\* C13: a use whose nearest reference container is the constructor is skipped by
\* the search: it is on no stack, the constructor is never marked visited and
\* never searched from, and no diagnostic is anchored at such a use.
C13_ConstructorUsesSkipped ==
    runs >= 1 =>
        /\ \A k \in DOMAIN Search.steps :
              /\ cls.nodes[Search.steps[k].container].kind # "Constructor"
              /\ \A j \in DOMAIN Search.steps[k].stack :
                    ~InConstructor(Search.steps[k].stack[j])
        /\ \A c \in Search.seen : cls.nodes[c].kind # "Constructor"
        /\ \A d \in DOMAIN result : ~InConstructor(result[d].node)

\* check has run on a class whose constructor body reads the parameter property,
\* next to a read that is reported
C13_Witness ==
    /\ runs >= 1
    /\ UsesAt(3, 4) # {}
    /\ result # <<>>

\* the uses whose nearest enclosing class is not the class that declares the
\* parameter property: in the subclass, in the nested class, in the free function
UsesOutsideClass ==
    { u \in Uses : findClass(cls.nodes, u) # findClass(cls.nodes, 4) }

\* C14: the search considers only references whose nearest enclosing class is
\* the class that declares the parameter property: a use in another class, in a
\* nested class or in a free function is on no stack, its container is never
\* marked visited or searched from, and no diagnostic is anchored at it.
C14_OnlySameClassReferences ==
    runs >= 1 =>
        /\ UsesOnStacks \cap UsesOutsideClass = {}
        /\ \A u \in UsesOutsideClass : findContainer(cls.nodes, u) \notin Search.seen
        /\ \A k \in DOMAIN Search.steps :
              findClass(cls.nodes, Search.steps[k].container) = findClass(cls.nodes, 4)
        /\ \A d \in DOMAIN result : result[d].node \notin UsesOutsideClass

\* check has run on a class with a reported read, a read in the free function
\* and a read in another class
C14_Witness ==
    /\ runs >= 1
    /\ result # <<>>
    /\ \E u \in UsesOutsideClass : findClass(cls.nodes, u) = 0
    /\ \E u \in UsesOutsideClass : findClass(cls.nodes, u) # 0

\* the reference containers of the class
Containers == { c \in DOMAIN cls.nodes : cls.nodes[c].kind \in ContainerKinds }

\* C15: on every class, reference cycles included, the search from the
\* parameter property comes to an end after at most as many passes through the
\* loop body as the class has containers, and no reference container is entered
\* twice: the containers of the passes are pairwise different, and they are
\* the visited set.
C15_EachContainerEnteredOnce ==
    runs >= 1 =>
        /\ \A j, k \in DOMAIN Search.steps :
              Search.steps[j].container = Search.steps[k].container => j = k
        /\ Search.seen = { Search.steps[k].container : k \in DOMAIN Search.steps }
        /\ Len(Search.steps) <= Cardinality(Containers)

\* check has run on a class with a reference cycle the search runs into: test
\* reads the parameter property, bar refers to test and test refers to bar
C15_Witness ==
    /\ runs >= 1
    /\ UsesAt(9, 4) # {}
    /\ UsesAt(6, 9) # {}
    /\ UsesAt(9, 6) # {}
    /\ {6, 9} \subseteq Search.seen

-----------------------------------------------------------------------------
(* Claims about the Navigation Redirector *)

\* the wrapped service answered with a class and, in the same file, the
\* constructor implementation contained in that class
CollapsiblePair(definitions) ==
    /\ definitions.defined
    /\ Len(definitions.value) = 2
    /\ definitions.value[1].fileName = definitions.value[2].fileName
    /\ definitions.value[1].kind = classElement
    /\ definitions.value[2].kind = constructorImplementationElement
    /\ definitions.value[2].containerName = definitions.value[1].name

\* C16: when the wrapped service answers with exactly two definitions in the
\* same file, a class and then a constructor implementation whose containerName
\* is the name of the class, getDefinitionAtPosition returns the constructor
\* entry alone, and getDefinitionAndBoundSpan returns the answer of the wrapped
\* service with the constructor entry alone as its definitions and the bound
\* span unchanged.
C16_DuplicateDefinitionCollapsed ==
    CollapsiblePair(host.definitions) =>
       /\ reply.fn = "getDefinitionAtPosition" =>
             reply.value = Some(<< host.definitions.value[2] >>)
       /\ reply.fn = "getDefinitionAndBoundSpan" =>
             reply.value = Some([definitions |-> Some(<< host.definitions.value[2] >>),
                                 textSpan |-> [start |-> host.position, length |-> 7]])

C16_Witness ==
    /\ CollapsiblePair(host.definitions)
    /\ reply.fn = "getDefinitionAndBoundSpan"
    /\ reply.value.value.definitions.value = << ConstructorDefinition("a.ts", "FooBar") >>

\* the wrapped service answered with the untyped field myField of class
\* declaration FooBar first, and FooBar has a constructor with a body
UntypedFieldAsked(h) ==
    /\ h.program
    /\ "a.ts" \in h.files
    /\ h.definitions.defined
    /\ h.definitions.value # <<>>
    /\ h.definitions.value[1].kind = memberVariableElement
    /\ h.definitions.value[1].fileName = "a.ts"
    /\ h.definitions.value[1].textSpan.start = 37
    /\ h.shape.classKind = "ClassDeclaration"
    /\ ~h.shape.typed
    /\ h.shape.ctor = "implemented"

\* ... and the constructor of FooBar has the top-level statement `this.myField = 1;`
RedirectApplies(h) ==
    /\ UntypedFieldAsked(h)
    /\ \E k \in DOMAIN h.shape.forms : h.shape.forms[k] = "ThisAssign"

\* the position in the constructor body of the first top-level `this.myField = 1;`
FirstThisAssign(h) ==
    CHOOSE k \in DOMAIN h.shape.forms :
        /\ h.shape.forms[k] = "ThisAssign"
        /\ \A j \in 1..(k - 1) : h.shape.forms[j] # "ThisAssign"

\* C17: when the first definition of the wrapped service is a field declared
\* without a type annotation and the constructor of its class has a top-level
\* statement `this.<name> = <value>`, getDefinitionAtPosition returns exactly
\* one entry: the first definition with its span set to the name token of that
\* assignment (7 characters, 5 after the start of the statement), its kind set
\* to local variable and its name to the field name; no other entry is kept.
C17_UntypedFieldRedirected ==
    (RedirectApplies(host) /\ reply.fn = "getDefinitionAtPosition") =>
       reply.value =
          Some(<< [host.definitions.value[1] EXCEPT
                     !.textSpan = [start |-> 100 + 30 * (FirstThisAssign(host) - 1) + 5,
                                   length |-> 7],
                     !.name = "myField",
                     !.kind = localVariableElement] >>)

C17_Witness ==
    /\ RedirectApplies(host)
    /\ Len(host.definitions.value) = 2
    /\ reply.fn = "getDefinitionAtPosition"
    /\ Len(reply.value.value) = 1
    /\ reply.value.value[1].kind = localVariableElement

\* C18: the redirection points into the first statement of the constructor
\* body that is a top-level `this.<name> = <value>`: statements before it that
\* assign inside an `if` block, with a compound operator, through another
\* object or to another field are passed over, and when the body holds no
\* top-level `this.<name> = <value>` at all, nothing is redirected.
C18_FirstTopLevelAssignmentChosen ==
    (UntypedFieldAsked(host) /\ reply.fn = "getDefinitionAtPosition") =>
       IF \E k \in DOMAIN host.shape.forms : host.shape.forms[k] = "ThisAssign"
       THEN LET start == reply.value.value[1].textSpan.start
                k == (start - 100) \div 30 + 1
            IN  /\ k \in DOMAIN host.shape.forms
                /\ host.shape.forms[k] = "ThisAssign"
                /\ \A j \in 1..(k - 1) : host.shape.forms[j] # "ThisAssign"
                /\ start < 100 + 30 * (k - 1) + 17
       ELSE reply.value = host.definitions

C18_Witness ==
    /\ UntypedFieldAsked(host)
    /\ host.shape.forms = << "NestedAssign", "ThisAssign" >>
    /\ reply.fn = "getDefinitionAtPosition"
    /\ reply.value.value[1].textSpan.start = 135

\* the baseline changed at most by the duplicate-definition collapse
CollapsedBaseline(h) ==
    IF CollapsiblePair(h.definitions) THEN Some(<< h.definitions.value[2] >>)
    ELSE h.definitions

\* C19: whenever the redirection does not apply (no answer or an empty one, no
\* program, no source file, a first entry that is no field of a class
\* declaration, a field with a type annotation, no constructor or one without
\* a body, no top-level `this.<name> = <value>` in it), getDefinitionAtPosition
\* returns a value, and the value is the answer of the wrapped service, with
\* the class entry dropped when it is a class / constructor pair.
C19_FallbackToBaseline ==
    (reply.fn = "getDefinitionAtPosition" /\ ~RedirectApplies(host)) =>
       reply.value = CollapsedBaseline(host)

C19_Witness ==
    /\ reply.fn = "getDefinitionAtPosition"
    /\ host.program
    /\ "a.ts" \in host.files
    /\ host.shape.typed
    /\ host.shape.classKind = "ClassDeclaration"
    /\ host.shape.forms = << "ThisAssign" >>
    /\ host.definitions.defined
    /\ Len(host.definitions.value) = 1
    /\ host.definitions.value[1].kind = memberVariableElement
    /\ host.definitions.value[1].textSpan.start = 37
    /\ reply.value = host.definitions

\* findReferences is asked on the constructor keyword of class Test, the file
\* is in the program, and the wrapped service answers with the references of
\* the constructor under the definition of the class and knows the references
\* of the class
ConstructorKeywordAsked(h) ==
    /\ h.program
    /\ "a.ts" \in h.files
    /\ h.position = 15
    /\ h.references.defined
    /\ h.references.value # <<>>
    /\ h.references.value[1].definition.kind = classElement
    /\ h.classReferences.defined

\* the class-name tokens of the statements f(Test), f(new Test()) and Test(),
\* in text order: the tokens below a call through expressions only, with no
\* property access in between
TokensBelowCall(h) ==
    LET forms == h.shape.forms
        offset(form) == CASE form = "Argument" -> 2
                          [] form = "NewArgument" -> 6
                          [] form = "Callee" -> 0
        below == SelectSeq([k \in 1..Len(forms) |-> k],
                    LAMBDA k : forms[k] \in { "Argument", "NewArgument", "Callee" })
    IN  [i \in 1..Len(below) |->
            ReferenceEntry("a.ts", 100 + 30 * (below[i] - 1) + offset(forms[below[i]]), 4)]

\* C20: findReferences on a constructor keyword returns the answer the
\* wrapped service handed out with, appended to the reference list of its first symbol,
\* exactly the references to the class whose token lies below a call
\* expression through expression ancestors without a property access
\* (f(Test), f(new Test()), Test()); the class name in Test.foo inside a
\* call, in `new Test()` as a statement, in a type annotation, in a return
\* statement of an arrow function passed to a call, and in the class
\* declaration itself is not appended.
C20_IndirectConstructorReferences ==
    (reply.fn = "findReferences" /\ ConstructorKeywordAsked(host)) =>
       /\ reply.value.defined
       /\ Len(reply.value.value) = Len(reply.baseline.value)
       /\ reply.value.value[1].definition = reply.baseline.value[1].definition
       /\ reply.value.value[1].references =
             reply.baseline.value[1].references \o TokensBelowCall(host)

C20_Witness ==
    /\ reply.fn = "findReferences"
    /\ ConstructorKeywordAsked(host)
    /\ host.shape.forms = << "StaticRead", "Argument" >>
    /\ reply.value.value[1].references =
          << ReferenceEntry("a.ts", 15, 11), ReferenceEntry("a.ts", 132, 4) >>

\* C21 as stated: findReferences returns the answer of the wrapped service
\* unchanged unless the position is on a constructor keyword, the answer has
\* exactly one group, and that group is defined by a class.
C21_UnchangedUnlessSoleClassGroup ==
    (reply.fn = "findReferences"
       /\ ~(/\ host.position = 15
            /\ reply.baseline.defined
            /\ Len(reply.baseline.value) = 1
            /\ reply.baseline.value[1].definition.kind = classElement)) =>
       reply.value = reply.baseline

\* C21, amended: findReferences returns the answer of the wrapped service
\* unchanged unless the file is in the program, the position is on a
\* constructor keyword, the answer has at least one group, and its first group
\* is defined by a class; then only the reference list of the first group is
\* extended (by the class references below a call), also when the answer has
\* two or more groups, and every other group is returned as it was.
C21_UnchangedUnlessFirstGroupIsClass ==
    reply.fn = "findReferences" =>
       IF /\ host.program
          /\ "a.ts" \in host.files
          /\ host.position = 15
          /\ reply.baseline.defined
          /\ reply.baseline.value # <<>>
          /\ reply.baseline.value[1].definition.kind = classElement
       THEN reply.value =
              Some([reply.baseline.value EXCEPT
                      ![1].references =
                          @ \o (IF host.classReferences.defined
                                THEN TokensBelowCall(host) ELSE <<>>)])
       ELSE reply.value = reply.baseline

C21_Witness ==
    /\ reply.fn = "findReferences"
    /\ host.position = 15
    /\ host.shape.forms = << "Argument" >>
    /\ Len(reply.baseline.value) = 2
    /\ Len(reply.value.value[1].references) = Len(reply.baseline.value[1].references) + 1
    /\ reply.value.value[2] = reply.baseline.value[2]

-----------------------------------------------------------------------------
(* Further claims about the Initialization-Order Checker *)

\* C23: when bar's initializer is an immediately invoked arrow function,
\* bar = (() => { return this.foo; })(), no diagnostic is anchored at a read of
\* the parameter property inside the arrow function: the search enters the
\* arrow function as the container of the read and raises the depth to 1, the
\* search from the arrow function node finds no reference, so no pass of the
\* search has a stack that continues from such a read; a class whose only uses
\* are such reads gets no diagnostic at all.
C23_ImmediatelyInvokedArrowNotFlagged ==
    (runs >= 1 /\ Len(cls.nodes) > 0 /\ cls.nodes[7].context = ImmediatelyInvoked) =>
       /\ \A u \in ReadsInArrow :
             /\ \A d \in DOMAIN result : result[d].node # u
             /\ \A k \in DOMAIN Search.steps :
                   Search.steps[k].stack[1] = u =>
                      /\ Len(Search.steps[k].stack) = 1
                      /\ Search.steps[k].container = 7
                      /\ Search.steps[k].next = 1
       /\ (Uses = ReadsInArrow) => result = <<>>

C23_Witness ==
    /\ runs >= 1
    /\ cls.nodes[7].context = ImmediatelyInvoked
    /\ ReadsInArrow # {}
    /\ Uses = ReadsInArrow
    /\ result = <<>>
    /\ Len(Search.steps) = 1

\* the use is the callee of a call or the tag of a tagged template, directly or
\* through one property or element access
InvokingPosition(u) ==
    LET c == cls.nodes[u].context
        invoked(kind, role) == \/ kind = "CallExpression" /\ role = "expression"
                               \/ kind = "TaggedTemplateExpression" /\ role = "tag"
    IN  \/ invoked(c.parentKind, c.parentRole)
        \/ /\ \/ c.parentKind = "PropertyAccessExpression" /\ c.parentRole = "name"
              \/ c.parentKind = "ElementAccessExpression" /\ c.parentRole = "argumentExpression"
           /\ invoked(c.grandKind, c.grandRole)

Yielded(stack) == \E y \in DOMAIN Search.yields : Search.yields[y].stack = stack

\* C24: in every pass of the search the depth after the use is the depth before
\* it less one when the use is in an invoking position and the depth before it
\* was greater than zero, and the depth before it otherwise, so a use in a
\* non-invoking position never lowers the depth; the pass yields a diagnostic
\* if and only if the container of the use is a property declaration and the
\* depth after the use is zero.
C24_YieldIffPropertyDeclarationAtDepthZero ==
    runs >= 1 =>
       \A k \in DOMAIN Search.steps :
          LET s == Search.steps[k]
          IN  /\ s.afterUse = IF InvokingPosition(s.use) /\ s.before > 0
                               THEN s.before - 1 ELSE s.before
              /\ ~InvokingPosition(s.use) => s.afterUse = s.before
              /\ Yielded(s.stack) <=>
                    (cls.nodes[s.container].kind = "PropertyDeclaration" /\ s.afterUse = 0)

C24_Witness ==
    /\ runs >= 1
    /\ \E k \in DOMAIN Search.steps :
          LET s == Search.steps[k]
          IN  /\ cls.nodes[s.use].context = ThisTag
              /\ s.before = 1
              /\ s.afterUse = 0
              /\ cls.nodes[s.container].kind = "PropertyDeclaration"
              /\ Yielded(s.stack)

\* the stack `long` is the stack `short` with one more use on it
Extends(long, short) ==
    /\ Len(long) = Len(short) + 1
    /\ SubSeq(long, 1, Len(short)) = short

FunctionKinds ==
    { "MethodDeclaration", "FunctionDeclaration", "FunctionExpression", "ArrowFunction" }

\* C25 as claimed: a pass of the search goes on from the container of its use
\* only when the container is a method, function declaration, function
\* expression or arrow function and nothing was yielded for the use, and then
\* with the depth raised by one.
C25_ContinuesOnlyFromFunctions ==
    runs >= 1 =>
       \A k, j \in DOMAIN Search.steps :
          Extends(Search.steps[j].stack, Search.steps[k].stack) =>
             /\ cls.nodes[Search.steps[k].container].kind \in FunctionKinds
             /\ ~Yielded(Search.steps[k].stack)
             /\ Search.steps[j].before = Search.steps[k].afterUse + 1

\* C25: the search goes on from every container it visits, whatever its kind
\* and also after a diagnostic was yielded for the use: every reference in the
\* class to the container of a pass has a container that is the constructor or
\* has been visited by the search, and the passes that continue a pass refer to
\* its container, carry its stack and start with the depth it handed on; that
\* depth is the depth after the use raised by one when the container is a
\* method, function declaration, function expression or arrow function and
\* nothing was yielded, and the depth after the use otherwise.
C25_ContinuesFromEveryContainer ==
    runs >= 1 =>
       \A k \in DOMAIN Search.steps :
          LET s == Search.steps[k]
              raised == /\ cls.nodes[s.container].kind \in FunctionKinds
                        /\ ~Yielded(s.stack)
          IN  /\ s.next = IF raised THEN s.afterUse + 1 ELSE s.afterUse
              /\ \A j \in DOMAIN Search.steps :
                    Extends(Search.steps[j].stack, s.stack) =>
                       /\ cls.nodes[Search.steps[j].use].target = s.container
                       /\ Search.steps[j].before = s.next
              /\ \A u \in Uses :
                    (cls.nodes[u].target = s.container /\ findClass(cls.nodes, u) = 2) =>
                       \/ findContainer(cls.nodes, u) \in Search.seen
                       \/ cls.nodes[findContainer(cls.nodes, u)].kind = "Constructor"

C25_Witness ==
    /\ runs >= 1
    /\ \E k, j \in DOMAIN Search.steps :
          /\ cls.nodes[Search.steps[k].container].kind = "PropertyDeclaration"
          /\ Yielded(Search.steps[k].stack)
          /\ Extends(Search.steps[j].stack, Search.steps[k].stack)
          /\ Search.steps[j].before = 0
          /\ Yielded(Search.steps[j].stack)

-----------------------------------------------------------------------------
(* Further claim about the Condition Checker *)

\* the declarations of the identifier e that are variable or parameter
\* declarations with a type annotation
AnnotatedDeclarations(e) ==
    { d \in DOMAIN sf.nodes[e].declarations :
        /\ sf.nodes[e].declarations[d].kind \in {"VariableDeclaration", "Parameter"}
        /\ sf.nodes[e].declarations[d].type.present }

\* the type written on the first of them, a type alias named there replaced by
\* the type it stands for
AnnotatedType(e) ==
    LET first == CHOOSE d \in AnnotatedDeclarations(e) :
                    \A other \in AnnotatedDeclarations(e) : d <= other
        typeNode == sf.nodes[e].declarations[first].type
    IN  IF typeNode.isTypeReference /\ typeNode.aliasIsTypeAlias
        THEN typeNode.aliasType ELSE typeNode.type

\* C26: the diagnostics of a condition that is a bare identifier with an
\* annotated variable or parameter declaration are those of the declared type,
\* a type alias expanded one level, whatever the narrowed type at the use site
\* is; the diagnostics of every other condition are those of the type at the
\* expression.
C26_DeclaredTypeClassified ==
    runs >= 1 =>
       \A e \in DOMAIN sf.nodes : IsCondition(sf.nodes, e) =>
          LET declared == sf.nodes[e].kind = "Identifier" /\ AnnotatedDeclarations(e) # {}
              type == IF declared THEN AnnotatedType(e) ELSE sf.nodes[e].type
          IN  SelectSeq(result, LAMBDA d : d.node = e) =
                 IF type.flags \cap {"Any", "Unknown"} # {} THEN <<>> ELSE classify(type, e)

\* witness of C26: an identifier narrowed to the interface type, which alone
\* would be always true, declared with an alias of null | interface, got the
\* hint of a type that can be both
C26_Witness ==
    /\ runs >= 1
    /\ \E e \in DOMAIN sf.nodes :
          /\ IsCondition(sf.nodes, e)
          /\ sf.nodes[e].kind = "Identifier"
          /\ sf.nodes[e].type = InterfaceType
          /\ AnnotatedDeclarations(e) # {}
          /\ AnnotatedType(e) = UnionType(<<NullType, InterfaceType>>)
          /\ \E d \in DOMAIN result :
                result[d].node = e /\ result[d].message = NotBooleanMessage

-----------------------------------------------------------------------------
(* Further claims about the Initialization-Order Checker: the depth, the      *)
(* order of the references                                                    *)

\* C27: in every pass of every search the required-invocation depth is a
\* natural number before the use, after it and as handed on; the passes from
\* the parameter property itself start at depth 0; the depth is lowered, by
\* one, only from a depth greater than zero; and it is handed on raised by at
\* most one.
C27_DepthNeverNegative ==
    runs >= 1 =>
       \A param \in DOMAIN searched : \A k \in DOMAIN searched[param].steps :
          LET s == searched[param].steps[k]
          IN  /\ s.before \in Nat /\ s.afterUse \in Nat /\ s.next \in Nat
              /\ Len(s.stack) = 1 => s.before = 0
              /\ s.afterUse \in { s.before, s.before - 1 }
              /\ s.afterUse < s.before => s.before > 0
              /\ s.next \in { s.afterUse, s.afterUse + 1 }

\* witness of C27: one search met an invoking use at depth 0, which left the
\* depth at 0, and reached depth 2
C27_Witness ==
    /\ runs >= 1
    /\ \E k \in DOMAIN Search.steps :
          /\ Search.steps[k].before = 0
          /\ InvokingPosition(Search.steps[k].use)
          /\ Search.steps[k].afterUse = 0
    /\ \E k \in DOMAIN Search.steps : Search.steps[k].next = 2

\* the initializer of bar holds a reference to the method test and a call of
\* it, the method test reads the parameter property, and there is no other use
ReferenceAndCallInInitializer ==
    /\ UsesAt(9, 4) # {}
    /\ \E v, w \in UsesAt(6, 9) :
          /\ cls.nodes[v].context = ThisAccess
          /\ cls.nodes[w].context = ThisCall
    /\ Uses = UsesAt(9, 4) \cup UsesAt(6, 9)

\* C28 as claimed: with bar = [this.test, this.test()] and test reading the
\* parameter property, the diagnostic is emitted whichever of the two uses in
\* the initializer the host lists first.
C28_OrderOfReferencesIrrelevant ==
    (runs >= 1 /\ ReferenceAndCallInInitializer) => Len(result) > 0

-----------------------------------------------------------------------------
(* Further claims about the decorated service: repeated queries, duplicates   *)

\* C29 as claimed: the same query repeated against the unchanged program
\* returns a result equal to the one before, and the wrapped service hands out
\* at the second query what it handed out at the first.
C29_RepeatedQueryAgrees ==
    (runs >= 2 /\ previous.fn = reply.fn) =>
       /\ reply.value = previous.value
       /\ reply.baseline = previous.baseline

\* C30 as claimed: the references that findReferences returns for a constructor
\* keyword hold no two entries with the same file and span.
C30_NoDuplicateReferences ==
    (reply.fn = "findReferences" /\ reply.value.defined /\ ConstructorKeywordAsked(host)) =>
       \A g \in DOMAIN reply.value.value :
          LET references == reply.value.value[g].references
          IN  \A i, j \in DOMAIN references :
                 (/\ references[i].fileName = references[j].fileName
                  /\ references[i].textSpan = references[j].textSpan) => i = j

====
